---- MODULE Spec2Model ----
(***************************************************************************)
(* A model of the Backrooms_Doom raycasting renderer: the maze grid        *)
(* (maze.rs), the DDA ray caster (caster.rs), the frame compositor         *)
(* (game.rs render_3d_view, framebuffer.rs) and the texture store          *)
(* (textures.rs).                                                          *)
(*                                                                         *)
(* f32 values are exact rationals [n, d] with d > 0; d = 0 stands for the  *)
(* non-finite values (n = 1: +inf, n = -1: -inf, n = 0: NaN).  World       *)
(* coordinates are multiples of 1/Unit.  Angles are multiples of 15        *)
(* degrees (HalfTurn of them make PI) and cos/sin are a table of values    *)
(* rounded to 1/TrigDen.  The one f32 rounding that changes an outcome,    *)
(* x - floor(x) reaching 1.0 for a tiny negative x, is modelled in Fract.  *)
(***************************************************************************)
EXTENDS Integers, Sequences, FiniteSets, TLC

VARIABLES maze, player, raycaster, dda, ray_hits, framebuffer, textures, query, pc,
          assets, state, effects, frame_log,
          game_timer, idle_timer, pills, floating_texts, camera, frames

vars == <<maze, player, raycaster, dda, ray_hits, framebuffer, textures, query, pc, assets, state, effects, frame_log, game_timer, idle_timer, pills, floating_texts, camera, frames>>

\* the image files, the game state, the effects and the record of the passes
\* over the framebuffer
game_vars == <<assets, state, effects, frame_log>>

\* the timers, the pills, the floating texts and the camera of GameState, and
\* the number of frames of the main loop so far
play_vars == <<game_timer, idle_timer, pills, floating_texts, camera, frames>>

(***************************************************************************)
(* f32 arithmetic                                                          *)
(***************************************************************************)
Unit == 32

Abs(x) == IF x < 0 THEN -x ELSE x

Sign(x) == IF x > 0 THEN 1 ELSE IF x < 0 THEN -1 ELSE 0

RECURSIVE Gcd(_, _)
Gcd(a, b) == IF b = 0 THEN a ELSE Gcd(b, a % b)

F32(n, d) ==
    IF d = 0 THEN [n |-> Sign(n), d |-> 0]
    ELSE LET g == Gcd(Abs(n), Abs(d))
         IN  [n |-> Sign(n) * Sign(d) * (Abs(n) \div g), d |-> Abs(d) \div g]

NaN == [n |-> 0, d |-> 0]

Inf == [n |-> 1, d |-> 0]

IsFinite(a) == a.d # 0

IsNaN(a) == a.d = 0 /\ a.n = 0

FAdd(a, b) ==
    IF a.d = 0 /\ b.d = 0 THEN (IF a.n = b.n THEN a ELSE NaN)
    ELSE F32(a.n * b.d + b.n * a.d, a.d * b.d)

FNeg(a) == [n |-> -a.n, d |-> a.d]

FSub(a, b) == FAdd(a, FNeg(b))

FMul(a, b) == F32(a.n * b.n, a.d * b.d)

FDiv(a, b) ==
    IF b.n = 0 /\ b.d # 0 THEN F32(a.n, 0)
    ELSE F32(a.n * b.d * Sign(b.n), a.d * Abs(b.n))

FAbs(a) == [n |-> Abs(a.n), d |-> a.d]

\* a < b; every comparison with NaN is false
FLess(a, b) ==
    IF IsNaN(a) \/ IsNaN(b) THEN FALSE
    ELSE IF a.d = 0 /\ b.d = 0 THEN a.n < b.n
    ELSE a.n * b.d < b.n * a.d

FLeq(a, b) == ~IsNaN(a) /\ ~IsNaN(b) /\ ~FLess(b, a)

FEq(a, b) == ~IsNaN(a) /\ ~IsNaN(b) /\ a = b

\* f32::max and f32::min return the other operand when one is NaN
FMax(a, b) == IF IsNaN(a) THEN b ELSE IF IsNaN(b) THEN a ELSE IF FLess(a, b) THEN b ELSE a

FMin(a, b) == IF IsNaN(a) THEN b ELSE IF IsNaN(b) THEN a ELSE IF FLess(b, a) THEN b ELSE a

\* f32::floor of a finite value, as an integer
Floor(a) == IF a.n >= 0 THEN a.n \div a.d ELSE -((-a.n + a.d - 1) \div a.d)

FFloor(a) == IF a.d = 0 THEN a ELSE F32(Floor(a), 1)

\* usize is 64 bits wide; the model's integers are narrower and keep UsizeBits
UsizeBits == 20

UsizeMax == 2^UsizeBits - 1

I32Max == 2^(UsizeBits - 1) - 1

\* `f as i32`: truncation toward zero, saturating, NaN to 0
AsI32(a) ==
    IF a.d = 0 THEN (IF a.n < 0 THEN -I32Max - 1 ELSE a.n * I32Max)
    ELSE LET t == IF a.n >= 0 THEN a.n \div a.d ELSE -((-a.n) \div a.d)
         IN  IF t > I32Max THEN I32Max ELSE IF t < -I32Max - 1 THEN -I32Max - 1 ELSE t

\* `f as usize`: truncation toward zero, saturating, negative and NaN to 0
AsUsize(a) ==
    IF a.d = 0 THEN (IF a.n > 0 THEN UsizeMax ELSE 0)
    ELSE IF a.n <= 0 THEN 0
    ELSE LET t == a.n \div a.d IN IF t > UsizeMax THEN UsizeMax ELSE t

\* `i as usize` of an i32: two's complement wrap-around
I32AsUsize(i) == IF i < 0 THEN i + UsizeMax + 1 ELSE i

\* `i as f32`
IntAsF32(i) == F32(i, 1)

(***************************************************************************)
(* Angles and trigonometry                                                 *)
(***************************************************************************)
HalfTurn == 12

FullTurn == 2 * HalfTurn

TrigDen == 100

CosTable == << 100,  97,  87,  71,  50,  26,
                 0, -26, -50, -71, -87, -97,
              -100, -97, -87, -71, -50, -26,
                 0,  26,  50,  71,  87,  97 >>

Cos(angle) == F32(CosTable[(angle % FullTurn) + 1], TrigDen)

Sin(angle) == Cos(angle - HalfTurn \div 2)

(***************************************************************************)
(* Maze (maze.rs)                                                          *)
(***************************************************************************)
get_tile(m, x, y) ==
    IF y < Len(m.map) /\ x < Len(m.map[y + 1]) THEN m.map[y + 1][x + 1] ELSE "None"

is_wall(m, x, y) == get_tile(m, x, y) \in {"#", "E"}

get_wall_type(m, x, y) ==
    LET t == get_tile(m, x, y) IN IF t = "#" THEN "#" ELSE IF t = "E" THEN "E" ELSE " "

is_walkable(m, world_x, world_y) ==
    LET grid_x == AsUsize(FDiv(world_x, m.tile_size))
        grid_y == AsUsize(FDiv(world_y, m.tile_size))
    IN  ~is_wall(m, grid_x, grid_y)

(***************************************************************************)
(* Ray caster (caster.rs)                                                  *)
(***************************************************************************)
\* RayCaster::new: the ray offsets, left to right
RayAnglesFromRight(fov, num_rays) ==
    [i \in 1..num_rays |-> (fov \div 2) - (fov \div num_rays) * (i - 1)]

RayAngles(fov, num_rays) ==
    [i \in 1..num_rays |-> -(fov \div 2) + (fov \div num_rays) * (i - 1)]

RayCasterNew(fov, num_rays, max_depth) ==
    [fov |-> fov, num_rays |-> num_rays, max_depth |-> max_depth,
     ray_angles |-> RayAngles(fov, num_rays)]

\* f32::MAX: it and its multiples exceed every other distance of the model
F32_MAX == Inf

DeltaDist(dir) == IF dir.n = 0 THEN F32_MAX ELSE FAbs(FDiv(IntAsF32(1), dir))

SideDist(origin, tile_size, map, dir, delta_dist) ==
    IF dir.n < 0
    THEN FMul(FSub(FDiv(origin, tile_size), IntAsF32(map)), delta_dist)
    ELSE FMul(FSub(FAdd(IntAsF32(map), IntAsF32(1)), FDiv(origin, tile_size)), delta_dist)

\* cast_single_ray, lines 51-88: the state of the loop before its first iteration
DDAStart(origin_x, origin_y, angle, m) ==
    LET dir_x == Cos(angle)
        dir_y == Sin(angle)
        map_x == AsI32(FDiv(origin_x, m.tile_size))
        map_y == AsI32(FDiv(origin_y, m.tile_size))
        delta_dist_x == DeltaDist(dir_x)
        delta_dist_y == DeltaDist(dir_y)
    IN  [origin_x |-> origin_x, origin_y |-> origin_y,
         dir_x |-> dir_x, dir_y |-> dir_y,
         map_x |-> map_x, map_y |-> map_y,
         delta_dist_x |-> delta_dist_x, delta_dist_y |-> delta_dist_y,
         step_x |-> IF dir_x.n < 0 THEN -1 ELSE 1,
         step_y |-> IF dir_y.n < 0 THEN -1 ELSE 1,
         side_dist_x |-> SideDist(origin_x, m.tile_size, map_x, dir_x, delta_dist_x),
         side_dist_y |-> SideDist(origin_y, m.tile_size, map_y, dir_y, delta_dist_y),
         hit |-> FALSE, hit_vertical |-> FALSE, left_grid |-> FALSE, steps |-> 0]

\* the bounds test of line 103
NeverOutOfBounds(m, map_x, map_y) == FALSE

OutOfBounds(m, map_x, map_y) ==
    map_x < 0 \/ map_y < 0 \/ map_x >= m.width \/ map_y >= m.height

\* one iteration of the `while !hit` loop, lines 90-111
DDAIterate(s, m) ==
    LET jumped ==
            IF FLess(s.side_dist_x, s.side_dist_y)
            THEN [s EXCEPT !.side_dist_x = FAdd(s.side_dist_x, s.delta_dist_x),
                           !.map_x = s.map_x + s.step_x,
                           !.hit_vertical = TRUE]
            ELSE [s EXCEPT !.side_dist_y = FAdd(s.side_dist_y, s.delta_dist_y),
                           !.map_y = s.map_y + s.step_y,
                           !.hit_vertical = FALSE]
        counted == [jumped EXCEPT !.steps = s.steps + 1]
    IN  IF OutOfBounds(m, counted.map_x, counted.map_y)
        THEN [counted EXCEPT !.left_grid = TRUE]
        ELSE IF is_wall(m, I32AsUsize(counted.map_x), I32AsUsize(counted.map_y))
             THEN [counted EXCEPT !.hit = TRUE]
             ELSE counted

LoopRunning(s) == ~s.hit /\ ~s.left_grid

\* the distance along the ray to the grid line crossed last, lines 114-118
RayDistanceAlongOtherAxis(s, m) ==
    IF s.hit_vertical
    THEN FDiv(FAdd(FSub(IntAsF32(s.map_y), FDiv(s.origin_y, m.tile_size)),
                   FDiv(IntAsF32(1 - s.step_y), IntAsF32(2))), s.dir_y)
    ELSE FDiv(FAdd(FSub(IntAsF32(s.map_x), FDiv(s.origin_x, m.tile_size)),
                   FDiv(IntAsF32(1 - s.step_x), IntAsF32(2))), s.dir_x)

RayDistance(s, m) ==
    IF s.hit_vertical
    THEN FDiv(FAdd(FSub(IntAsF32(s.map_x), FDiv(s.origin_x, m.tile_size)),
                   FDiv(IntAsF32(1 - s.step_x), IntAsF32(2))), s.dir_x)
    ELSE FDiv(FAdd(FSub(IntAsF32(s.map_y), FDiv(s.origin_y, m.tile_size)),
                   FDiv(IntAsF32(1 - s.step_y), IntAsF32(2))), s.dir_y)

\* f32 resolves values below 1.0 in steps of 2^-24 and values near 0 far more
\* finely; the model resolves coordinates to 1/Unit tile and values below 1.0 in
\* steps of 2/HalfUlpDen, so that 1/Unit is below half a step as 1e-8 is in f32
HalfUlpDen == Unit \div 2

\* x - x.floor() (line 126): exact, except that for a negative x of at most
\* half a step the difference x + 1.0 rounds to 1.0
Fract(x) ==
    IF x.d = 0 THEN NaN
    ELSE IF x.n < 0 /\ (-x.n) * HalfUlpDen <= x.d THEN IntAsF32(1)
    ELSE FSub(x, FFloor(x))

\* a RayHit whose distance stays in tiles, not world units
RayHitInTiles(s, m) ==
    [distance |-> FAbs(RayDistance(s, m)),
     wall_x |-> Fract(IF s.hit_vertical
                      THEN FAdd(FDiv(s.origin_y, m.tile_size), FMul(RayDistance(s, m), s.dir_y))
                      ELSE FAdd(FDiv(s.origin_x, m.tile_size), FMul(RayDistance(s, m), s.dir_x))),
     hit_vertical |-> s.hit_vertical,
     map_x |-> I32AsUsize(s.map_x),
     map_y |-> I32AsUsize(s.map_y)]

\* lines 113-134: the RayHit built once the loop has ended
RayHitOf(s, m) ==
    LET distance == RayDistance(s, m)
        wall_x == IF s.hit_vertical
                  THEN FAdd(FDiv(s.origin_y, m.tile_size), FMul(distance, s.dir_y))
                  ELSE FAdd(FDiv(s.origin_x, m.tile_size), FMul(distance, s.dir_x))
    IN  [distance |-> FMul(FAbs(distance), m.tile_size),
         wall_x |-> Fract(wall_x),
         hit_vertical |-> s.hit_vertical,
         map_x |-> I32AsUsize(s.map_x),
         map_y |-> I32AsUsize(s.map_y)]

RECURSIVE RunDDA(_, _)
RunDDA(s, m) == IF ~LoopRunning(s) THEN s ELSE RunDDA(DDAIterate(s, m), m)

cast_single_ray(origin_x, origin_y, angle, m) ==
    RayHitOf(RunDDA(DDAStart(origin_x, origin_y, angle, m), m), m)

\* cast_rays with each distance projected on the heading (fisheye-corrected)
cast_rays_corrected(rc, p, m) ==
    [i \in 1..Len(rc.ray_angles) |->
        [cast_single_ray(p.pos.x, p.pos.y, p.angle + rc.ray_angles[i], m)
            EXCEPT !.distance = FMul(@, Cos(rc.ray_angles[i]))]]

\* RayCaster::cast_rays
cast_rays(rc, p, m) ==
    [i \in 1..Len(rc.ray_angles) |->
        cast_single_ray(p.pos.x, p.pos.y, p.angle + rc.ray_angles[i], m)]

(***************************************************************************)
(* Shading (effects.rs), textures (textures.rs), framebuffer               *)
(***************************************************************************)
\* Effects::calculate_shading
calculate_shading(hit_vertical) == IF hit_vertical THEN F32(95, 100) ELSE IntAsF32(1)

\* f32::clamp(0.0, 1.0): NaN stays NaN
FClamp01(a) ==
    IF IsNaN(a) THEN a
    ELSE IF FLess(a, IntAsF32(0)) THEN IntAsF32(0)
    ELSE IF FLess(IntAsF32(1), a) THEN IntAsF32(1) ELSE a

\* the linear falloff without the clamp of the normalized distance
distance_shading_unclamped(distance, max_distance) ==
    FSub(IntAsF32(1), FMul(FDiv(distance, max_distance), F32(25, 100)))

\* Effects::calculate_distance_shading
calculate_distance_shading(distance, max_distance) ==
    LET normalized == FClamp01(FDiv(distance, max_distance))
    IN  FSub(IntAsF32(1), FMul(normalized, F32(25, 100)))

\* A texture is its dimensions; texel i of texture t has the colour <<t, i>>,
\* and pixels.len() = width * height (Texture::new as TextureManager calls it)
TextureNew(width, height) == [width |-> width, height |-> height, len |-> width * height]

\* a pixel: the texel it was painted from and the shade applied to it
Pixel(src, idx, shade) == [src |-> src, idx |-> idx, shade |-> shade]

\* what the buffer holds before a frame is painted
Stale == Pixel("previous", 0, IntAsF32(1))

\* Framebuffer::new, the pixels standing for those of an earlier frame
FramebufferNew(width, height) ==
    [width |-> width, height |-> height, buffer |-> [i \in 1..(width * height) |-> Stale]]

Min(a, b) == IF a < b THEN a ELSE b

\* Framebuffer::draw_textured_line
DrawTexturedLine(fb, x, y_start, y_end, texname, tex, tex_x, shade) ==
    IF x >= fb.width \/ y_start >= y_end THEN fb
    ELSE LET line_height == y_end - y_start
             rows == Min(y_start, fb.height)..(Min(y_end, fb.height) - 1)
             tex_index(y) ==
                 Min(((y - y_start) * tex.height) \div line_height, tex.height - 1)
                     * tex.width + tex_x
         IN  [fb EXCEPT !.buffer =
                 [i \in DOMAIN @ |->
                     IF /\ (i - 1) % fb.width = x
                        /\ (i - 1) \div fb.width \in rows
                        /\ tex_index((i - 1) \div fb.width) < tex.len
                     THEN Pixel(texname, tex_index((i - 1) \div fb.width), shade)
                     ELSE @[i]]]

\* Framebuffer::draw_textured_ceiling_span
DrawTexturedCeilingSpan(fb, y, x_start, x_end, tex, player_x, player_y) ==
    IF y >= fb.height THEN fb
    ELSE LET tex_u == AsUsize(FMul(player_x, IntAsF32(2))) % tex.width
             tex_v == AsUsize(FMul(player_y, IntAsF32(2))) % tex.height
             tex_index == Min(tex_v * tex.width + tex_u, tex.len - 1)
             cols == Min(x_start, fb.width)..(Min(x_end, fb.width) - 1)
         IN  [fb EXCEPT !.buffer =
                 [i \in DOMAIN @ |->
                     IF (i - 1) \div fb.width = y /\ (i - 1) % fb.width \in cols
                     THEN Pixel("ceiling", tex_index, F32(85, 100))
                     ELSE @[i]]]

\* framebuffer.rs line 205, `camera_x * 0.5`: 0.5 rad is 1.91 steps of the
\* angle table, which resolves it as 2 steps
FovFactor == 2

\* Framebuffer::draw_textured_floor_span; `distance` and `fog_distance` are
\* parameters the function never reads
DrawTexturedFloorSpan(fb, y, x_start, x_end, tex, player_x, player_y, player_angle, distance, fog_distance) ==
    IF y >= fb.height THEN fb
    ELSE LET half == FDiv(IntAsF32(fb.height), IntAsF32(2))
             row_distance == FDiv(half, FMax(FSub(IntAsF32(y), half), IntAsF32(1)))
             cols == Min(x_start, fb.width)..(Min(x_end, fb.width) - 1)
             ray_angle(x) ==
                 player_angle
                     + Floor(FMul(FSub(FDiv(IntAsF32(2 * x), IntAsF32(fb.width)), IntAsF32(1)),
                                  IntAsF32(FovFactor)))
             floor_x(x) == FAdd(player_x, FMul(FMul(Cos(ray_angle(x)), row_distance), F32(1, 2)))
             floor_y(x) == FAdd(player_y, FMul(FMul(Sin(ray_angle(x)), row_distance), F32(1, 2)))
             tex_u(x) == AsUsize(FMul(FAbs(floor_x(x)), IntAsF32(2))) % tex.width
             tex_v(x) == AsUsize(FMul(FAbs(floor_y(x)), IntAsF32(2))) % tex.height
             tex_index(x) == Min(tex_v(x) * tex.width + tex_u(x), tex.len - 1)
         IN  [fb EXCEPT !.buffer =
                 [i \in DOMAIN @ |->
                     IF (i - 1) \div fb.width = y /\ (i - 1) % fb.width \in cols
                     THEN Pixel("floor", tex_index((i - 1) % fb.width), F32(9, 10))
                     ELSE @[i]]]

(***************************************************************************)
(* Frame compositor (game.rs render_3d_view)                               *)
(***************************************************************************)
\* render_3d_view line 344 reads hit.wall_type, a field the RayHit of caster.rs
\* does not have: the tag of the hit cell, as the specification describes it
HitWallType(m, hit) == get_wall_type(m, hit.map_x, hit.map_y)

\* the exit texture for every tag but the exit tag
WallTextureNameSwapped(wall_type) == IF wall_type = "E" THEN "wall" ELSE "wall_exit"

\* lines 344-348: the texture of a wall column, by the tag of the hit
WallTextureName(wall_type) == IF wall_type = "E" THEN "wall_exit" ELSE "wall"

\* lines 332-336
WallHeight(fb, hit) == FDiv(IntAsF32(fb.height), FMax(hit.distance, F32(1, 10)))

\* a span that begins at the top row
DrawStartAtTop(fb, hit) == 0

DrawStart(fb, hit) ==
    AsUsize(FSub(FDiv(IntAsF32(fb.height), IntAsF32(2)), FDiv(WallHeight(fb, hit), IntAsF32(2))))

DrawEnd(fb, hit) ==
    AsUsize(FAdd(FDiv(IntAsF32(fb.height), IntAsF32(2)), FDiv(WallHeight(fb, hit), IntAsF32(2))))

\* lines 373-384: `for y in 1..draw_start`
RECURSIVE PaintCeilingRows(_, _, _, _, _, _)
PaintCeilingRows(fb, y, draw_start, x, tex, p) ==
    IF y >= draw_start THEN fb
    ELSE PaintCeilingRows(
             DrawTexturedCeilingSpan(fb, y, x, x + 1, tex,
                 FAdd(p.pos.x, FMul(IntAsF32(y), F32(1, 10))),
                 FAdd(p.pos.y, FMul(IntAsF32(y), F32(1, 10)))),
             y + 1, draw_start, x, tex, p)

\* lines 401-415: `for y in draw_end..self.framebuffer.height`
RECURSIVE PaintFloorRows(_, _, _, _, _, _, _)
PaintFloorRows(fb, y, x, tex, p, distance, fog_distance) ==
    IF y >= fb.height THEN fb
    ELSE PaintFloorRows(
             DrawTexturedFloorSpan(fb, y, x, x + 1, tex, p.pos.x, p.pos.y, p.angle,
                                   distance, fog_distance),
             y + 1, x, tex, p, distance, fog_distance)

\* lines 358-417: one screen column of one ray
PaintColumn(fb, x, hit, rc, p, m, tex) ==
    LET draw_start == DrawStart(fb, hit)
        draw_end == DrawEnd(fb, hit)
        total_shade == FMul(calculate_shading(hit.hit_vertical),
                            calculate_distance_shading(hit.distance, rc.max_depth))
        wall_name == WallTextureName(HitWallType(m, hit))
        tex_x == AsUsize(FMul(hit.wall_x, IntAsF32(tex[wall_name].width)))
        ceiled == IF draw_start > 0
                  THEN PaintCeilingRows(
                           DrawTexturedCeilingSpan(fb, 0, x, x + 1, tex.ceiling, p.pos.x, p.pos.y),
                           1, draw_start, x, tex.ceiling, p)
                  ELSE fb
        walled == DrawTexturedLine(ceiled, x, draw_start, draw_end, wall_name,
                                   tex[wall_name], tex_x, total_shade)
    IN  IF draw_end < fb.height
        THEN PaintFloorRows(walled, draw_end, x, tex.floor, p, hit.distance, rc.max_depth)
        ELSE walled

RECURSIVE PaintColumns(_, _, _, _, _, _, _, _)
PaintColumns(fb, x, x_end, hit, rc, p, m, tex) ==
    IF x >= x_end THEN fb
    ELSE PaintColumns(PaintColumn(fb, x, hit, rc, p, m, tex), x + 1, x_end, hit, rc, p, m, tex)

\* lines 331-418: `for (ray_index, hit) in ray_hits.iter().enumerate()`
RECURSIVE PaintRays(_, _, _, _, _, _, _)
PaintRays(fb, ray_index, hits, rc, p, m, tex) ==
    IF ray_index >= Len(hits) THEN fb
    ELSE LET num_rays == Len(hits)
             x_start == (ray_index * fb.width) \div num_rays
             x_end == ((ray_index + 1) * fb.width) \div num_rays
         IN  PaintRays(PaintColumns(fb, x_start, x_end, hits[ray_index + 1], rc, p, m, tex),
                       ray_index + 1, hits, rc, p, m, tex)

(***************************************************************************)
(* Inputs: the mazes, poses and caster settings the checks range over      *)
(***************************************************************************)
\* Maze::load_from_file, lines 29-30 and 52-60, of an already parsed map
MazeOf(map, tile) ==
    [map |-> map, width |-> Len(map[1]), height |-> Len(map), tile_size |-> F32(tile, Unit)]

\* 5x5, bordered by walls, open inside
Map5 == << <<"#", "#", "#", "#", "#">>,
           <<"#", ".", ".", ".", "#">>,
           <<"#", ".", "S", ".", "#">>,
           <<"#", ".", ".", ".", "#">>,
           <<"#", "#", "#", "#", "#">> >>

\* 4x4, bordered by walls and the exit door, one wall inside
Map4 == << <<"#", "#", "#", "#">>,
           <<"#", "S", ".", "E">>,
           <<"#", ".", "#", "#">>,
           <<"#", "#", "#", "#">> >>

\* 3x3 without any wall
Map3 == << <<".", ".", ".">>,
           <<".", "S", ".">>,
           <<".", ".", ".">> >>

\* 3x3 without a border, two walls
Map3w == << <<".", ".", "#">>,
            <<".", "S", ".">>,
            <<"E", ".", ".">> >>

Mazes == {MazeOf(Map5, Unit), MazeOf(Map5, 2 * Unit), MazeOf(Map4, Unit),
          MazeOf(Map3, Unit), MazeOf(Map3w, Unit)}

Bordered(m) ==
    \A x \in 0..(m.width - 1), y \in 0..(m.height - 1) :
        (x = 0 \/ y = 0 \/ x = m.width - 1 \/ y = m.height - 1) => is_wall(m, x, y)

\* how many half tiles off the grid an origin may lie
MaxOff == 1

TileUnits(m) == (m.tile_size.n * Unit) \div m.tile_size.d

\* world coordinates along an axis of `size` tiles: every half tile, a quarter
\* tile, and the smallest negative coordinate
Coords(m, size) ==
    {F32(k * (TileUnits(m) \div 2), Unit) : k \in (-MaxOff)..(2 * size + MaxOff)}
        \cup {F32(-1, Unit), F32(TileUnits(m) + TileUnits(m) \div 4, Unit)}

Angles == 0..(FullTurn - 1)

\* Player::new, lines 26-36, at a given pose
PlayerAt(x, y, angle) == [pos |-> [x |-> x, y |-> y], angle |-> angle]

\* GameState::new, line 57: RayCaster::new(PI / 3.0, num_rays, 20.0)
Fov == HalfTurn \div 3

MaxDepth == 20

NoDDA == DDAStart(F32(0, 1), F32(0, 1), 0, MazeOf(Map3, Unit))

NoFramebuffer == [width |-> 0, height |-> 0, buffer |-> <<>>]

NoTextures == [wall |-> TextureNew(1, 1), wall_exit |-> TextureNew(1, 1),
               floor |-> TextureNew(1, 1), ceiling |-> TextureNew(1, 1)]

NoQuery == [kind |-> "none"]

\* the four textures render_3d_view asks for (lines 320-323)
TextureNames == {"wall", "wall_exit", "floor", "ceiling"}

\* an image file that Image::load_image fails to load
MissingImage == [loads |-> FALSE, width |-> 0, height |-> 0]

NoAssets == [name \in TextureNames |-> MissingImage]

\* a colour: raylib's Color, four u8 channels
Color(r, g, b, a) == [r |-> r, g |-> g, b |-> b, a |-> a]

\* Effects::new
EffectsNew ==
    [fog_enabled |-> FALSE, fog_distance |-> IntAsF32(15), fog_color |-> Color(80, 75, 50, 255),
     damage_flash_timer |-> IntAsF32(0), anxiety_intensity |-> IntAsF32(0),
     anxiety_timer |-> IntAsF32(0), screen_shake_offset |-> <<IntAsF32(0), IntAsF32(0)>>]

\* Camera::new(0.003), game.rs line 58
CameraNew == [sensitivity |-> F32(3, 1000), is_first_frame |-> TRUE]

\* GameState::new, lines 103-106, for a maze without pills
NoPlay ==
    /\ game_timer = IntAsF32(180)
    /\ idle_timer = IntAsF32(0)
    /\ pills = <<>>
    /\ floating_texts = <<>>
    /\ camera = CameraNew
    /\ frames = 0

\* outside the loader and the frame loop: no image files, a game being played
\* with fresh effects, no pass over the framebuffer yet
NoGame ==
    /\ assets = NoAssets
    /\ state = "Playing"
    /\ effects = EffectsNew
    /\ frame_log = <<>>
    /\ NoPlay

(***************************************************************************)
(* SpecRay: one call of cast_single_ray, one loop iteration per step       *)
(***************************************************************************)
InitRay ==
    /\ maze \in Mazes
    /\ \E x \in Coords(maze, maze.width), y \in Coords(maze, maze.height), a \in Angles :
           player = PlayerAt(x, y, a)
    /\ raycaster = RayCasterNew(Fov, 1, IntAsF32(MaxDepth))
    /\ dda = NoDDA
    /\ ray_hits = <<>>
    /\ framebuffer = NoFramebuffer
    /\ textures = NoTextures
    /\ query = NoQuery
    /\ pc = "ray_start"
    /\ NoGame

CastSingleRayBegin ==
    /\ pc = "ray_start"
    /\ dda' = DDAStart(player.pos.x, player.pos.y, player.angle, maze)
    /\ pc' = "ray_loop"
    /\ UNCHANGED <<maze, player, raycaster, ray_hits, framebuffer, textures, query, game_vars>>
    /\ UNCHANGED play_vars

DDALoop ==
    /\ pc = "ray_loop"
    /\ LoopRunning(dda)
    /\ dda' = DDAIterate(dda, maze)
    /\ UNCHANGED <<maze, player, raycaster, ray_hits, framebuffer, textures, query, pc, game_vars>>
    /\ UNCHANGED play_vars

CastSingleRayEnd ==
    /\ pc = "ray_loop"
    /\ ~LoopRunning(dda)
    /\ ray_hits' = <<RayHitOf(dda, maze)>>
    /\ pc' = "ray_done"
    /\ UNCHANGED <<maze, player, raycaster, dda, framebuffer, textures, query, game_vars>>
    /\ UNCHANGED play_vars

NextRay == CastSingleRayBegin \/ DDALoop \/ CastSingleRayEnd

SpecRay == InitRay /\ [][NextRay]_vars /\ WF_vars(NextRay)

\* the ray's origin lies strictly inside a cell of the grid that is no wall
StrictlyInsideOpenCell(p, m) ==
    LET tx == FDiv(p.pos.x, m.tile_size)
        ty == FDiv(p.pos.y, m.tile_size)
    IN  /\ tx.n > 0 /\ ty.n > 0
        /\ tx.d # 1 /\ ty.d # 1
        /\ Floor(tx) < m.width /\ Floor(ty) < m.height
        /\ ~is_wall(m, Floor(tx), Floor(ty))

\* C2: the grid traversal of cast_single_ray ends for every origin (in an open
\* cell, in a wall cell, off the grid), direction and grid, walls or none: the
\* loop runs at most width + height times and a RayHit is returned.
C2_TraversalTerminates ==
    /\ pc \in {"ray_loop", "ray_done"} => dda.steps <= maze.width + maze.height
    /\ pc = "ray_loop" => (LoopRunning(dda) => dda.steps < maze.width + maze.height)
    /\ pc = "ray_done" => (~LoopRunning(dda) /\ Len(ray_hits) = 1)

C2_Witness ==
    /\ pc = "ray_done"
    /\ maze.map = Map3
    /\ dda.left_grid
    /\ dda.steps >= 3

\* C4: the texture-U coordinate wall_x of every returned RayHit lies in [0, 1).
C4_WallXInUnitInterval ==
    pc = "ray_done" =>
        LET w == ray_hits[1].wall_x
        IN  IsFinite(w) /\ w.n >= 0 /\ w.n < w.d

\* C5: from an origin strictly inside an open cell of a grid bordered by walls,
\* at every angle, the distance is finite, positive and at most the grid's
\* diagonal sqrt(width^2 + height^2) * tile_size.
C5_DistanceBounded ==
    (pc = "ray_done" /\ Bordered(maze) /\ StrictlyInsideOpenCell(player, maze)) =>
        LET d == ray_hits[1].distance
        IN  /\ IsFinite(d)
            /\ d.n > 0
            /\ FLeq(FMul(d, d),
                    FMul(IntAsF32(maze.width * maze.width + maze.height * maze.height),
                         FMul(maze.tile_size, maze.tile_size)))

C5_Witness ==
    /\ pc = "ray_done"
    /\ Bordered(maze)
    /\ StrictlyInsideOpenCell(player, maze)
    /\ dda.steps >= 3
    /\ FLess(FMul(IntAsF32(2), maze.tile_size), ray_hits[1].distance)

\* C30: the cell (map_x, map_y) of every returned RayHit lies inside the grid
\* and is a wall, also when the ray left the grid or started off it.
C30_HitCellIsWallInGrid ==
    pc = "ray_done" =>
        /\ ray_hits[1].map_x < maze.width
        /\ ray_hits[1].map_y < maze.height
        /\ is_wall(maze, ray_hits[1].map_x, ray_hits[1].map_y)

(***************************************************************************)
(* Spec: one frame, render_3d_view on a caster, pose, maze and screen      *)
(***************************************************************************)
\* the number of ray columns a caster is built with
MaxRays == 4

\* the ray counts for which fov / num_rays is a whole number of angle steps
RayCounts == {n \in 1..MaxRays : Fov % n = 0}

MaxScreenWidth == 3

MaxScreenHeight == 4

MaxTextureSize == 2

\* TextureManager::new: four textures, generated (all texture_size squared)
\* or loaded from images of their own dimensions
GeneratedTextures(size) ==
    [wall |-> TextureNew(size, size), wall_exit |-> TextureNew(size, size),
     floor |-> TextureNew(size, size), ceiling |-> TextureNew(size, size)]

LoadedTextures ==
    [wall |-> TextureNew(2, 3), wall_exit |-> TextureNew(3, 1),
     floor |-> TextureNew(1, 2), ceiling |-> TextureNew(3, 2)]

TextureStores == {GeneratedTextures(MaxTextureSize), LoadedTextures}

\* the screens: one pixel wide or high, and the largest
Screens == {<<w, h>> : w \in {1, MaxScreenWidth}, h \in {1, MaxScreenHeight}}

\* the centre of every cell along an axis, and the smallest negative coordinate
PlayerCoords(m, size) ==
    {F32((2 * k + 1) * (TileUnits(m) \div 2), Unit) : k \in 0..(size - 1)}
        \cup {F32(-1, Unit)}

Init ==
    /\ maze \in Mazes
    /\ \E x \in PlayerCoords(maze, maze.width), y \in PlayerCoords(maze, maze.height),
          a \in Angles :
           /\ is_walkable(maze, x, y)
           /\ player = PlayerAt(x, y, a)
    /\ \E n \in RayCounts : raycaster = RayCasterNew(Fov, n, IntAsF32(MaxDepth))
    /\ dda = NoDDA
    /\ ray_hits = <<>>
    /\ \E s \in Screens : framebuffer = FramebufferNew(s[1], s[2])
    /\ textures \in TextureStores
    /\ query = NoQuery
    /\ pc = "frame_start"
    /\ NoGame

\* GameState::render_3d_view without pills (render_pills_to_framebuffer paints
\* nothing when the maze has no pill)
\* `a % tex_width`, `a % tex_height` and `texture.len() - 1` in the floor and
\* ceiling spans panic on a texture without pixels
SpanPanics(tex) == tex.width = 0 \/ tex.height = 0 \/ tex.len = 0

\* the panics of one screen column: the spans that are drawn, and
\* `tex_height - 1` in the rows of draw_textured_line
ColumnPanics(fb, hit, m, tex) ==
    LET draw_start == DrawStart(fb, hit)
        draw_end == DrawEnd(fb, hit)
        wall_name == WallTextureName(HitWallType(m, hit))
    IN  \/ draw_start > 0 /\ 0 < fb.height /\ SpanPanics(tex.ceiling)
        \/ /\ draw_start < draw_end
           /\ Min(draw_start, fb.height) < Min(draw_end, fb.height)
           /\ tex[wall_name].height = 0
        \/ draw_end < fb.height /\ SpanPanics(tex.floor)

\* a division by num_rays made once, before the loop over the hits
ColumnsPerRayPanics(hits) == Len(hits) = 0

\* lines 354-355: the divisions by num_rays, made once per hit
ColumnRangePanics(hits) == \E ray_index \in 0..(Len(hits) - 1) : Len(hits) = 0

\* lines 331-418: a division by zero, an underflow or an index out of range
\* while the hits are painted
PaintPanics(fb, hits, m, tex) ==
    \/ ColumnRangePanics(hits)
    \/ \E ray_index \in 0..(Len(hits) - 1) :
           /\ (ray_index * fb.width) \div Len(hits) < ((ray_index + 1) * fb.width) \div Len(hits)
           /\ ColumnPanics(fb, hits[ray_index + 1], m, tex)

\* the pixels of a framebuffer that a painting pass has written
PaintedPixels(fb) == {i \in DOMAIN fb.buffer : fb.buffer[i] # Stale}

\* lines 320-323: `get_texture(name).unwrap()` panics on a texture that is not
\* in the store, before anything is cast or painted
Render3DView ==
    /\ pc = "frame_start"
    /\ IF /\ TextureNames \subseteq DOMAIN textures
          /\ ~PaintPanics(framebuffer, cast_rays(raycaster, player, maze), maze, textures)
       THEN /\ ray_hits' = cast_rays(raycaster, player, maze)
            /\ framebuffer' =
                   PaintRays(framebuffer, 0, ray_hits', raycaster, player, maze, textures)
            /\ pc' = "frame_painted"
            /\ frame_log' = Append(frame_log, [pass |-> "render_3d_view",
                                               pixels |-> PaintedPixels(framebuffer')])
       ELSE /\ pc' = "panic"
            /\ UNCHANGED <<ray_hits, framebuffer, frame_log>>
    /\ UNCHANGED <<maze, player, raycaster, dda, textures, query, assets, state, effects>>
    /\ UNCHANGED play_vars

Next == Render3DView

Spec == Init /\ [][Next]_vars

(***************************************************************************)
(* Claims about a frame                                                    *)
(***************************************************************************)
\* C1: cast_rays returns exactly num_rays hits, and hit i (counted from 0 at
\* the left) is the cast at angle player.angle - fov/2 + i * (fov/num_rays).
C1_RaysEvenlySpaced ==
    pc = "frame_painted" =>
        /\ Len(ray_hits) = raycaster.num_rays
        /\ \A i \in 0..(raycaster.num_rays - 1) :
               ray_hits[i + 1] =
                   cast_single_ray(player.pos.x, player.pos.y,
                       player.angle - (raycaster.fov \div 2)
                           + i * (raycaster.fov \div raycaster.num_rays),
                       maze)

C1_Witness ==
    /\ pc = "frame_painted"
    /\ raycaster.num_rays = 4
    /\ Len(ray_hits) = 4
    /\ \A i, j \in 1..4 : i # j => ray_hits[i] # ray_hits[j]

\* the heading runs along a grid axis
AxisAligned(p) == p.angle % (HalfTurn \div 2) = 0

\* two hits lie on one wall plane perpendicular to the heading of p
OnSameFlatWall(p, a, b) ==
    IF p.angle % HalfTurn = 0
    THEN a.hit_vertical /\ b.hit_vertical /\ a.map_x = b.map_x
    ELSE ~a.hit_vertical /\ ~b.hit_vertical /\ a.map_y = b.map_y

\* the hit of the ray along the heading, present when num_rays is even
CentreHit == ray_hits[(raycaster.num_rays \div 2) + 1]

\* the hits at the two edges of the field of view: the first ray of the
\* frame, and the cast at player.angle + fov/2
EdgeHits ==
    {ray_hits[1],
     cast_single_ray(player.pos.x, player.pos.y, player.angle + (raycaster.fov \div 2), maze)}

C7_PerpendicularDistance ==
    (pc = "frame_painted" /\ Bordered(maze)) =>
        /\ \A i \in 1..Len(ray_hits) : ray_hits[i].distance.n >= 0
        /\ AxisAligned(player) =>
               \A i, j \in 1..Len(ray_hits) :
                   OnSameFlatWall(player, ray_hits[i], ray_hits[j]) =>
                       ray_hits[i].distance = ray_hits[j].distance

\* C9: one call of render_3d_view leaves no pixel of the framebuffer with the
\* value it had before the call.
C9_EveryPixelWritten ==
    pc = "frame_painted" =>
        \A i \in DOMAIN framebuffer.buffer : framebuffer.buffer[i] # Stale

(***************************************************************************)
(* Claims about the 5x5 scenario (SpecRay)                                 *)
(***************************************************************************)
\* the centre of the centre cell of the 5x5 grid, heading +X
CentreFacingPlusX ==
    /\ maze.map = Map5
    /\ player.pos.x = FMul(F32(5, 2), maze.tile_size)
    /\ player.pos.y = FMul(F32(5, 2), maze.tile_size)
    /\ player.angle = 0

\* C8 as stated: in the bordered 5x5 grid, from the centre cell facing +X, the
\* ray along the heading returns 3 * tile_size and hit_vertical = true.
C8_CentreRayThreeTiles ==
    (pc = "ray_done" /\ CentreFacingPlusX) =>
        /\ ray_hits[1].distance = FMul(IntAsF32(3), maze.tile_size)
        /\ ray_hits[1].hit_vertical

\* C8, amended: in the bordered 5x5 grid, from the centre of the centre cell
\* facing +X, the ray along the heading returns 1.5 * tile_size and
\* hit_vertical = true.
C8_CentreRayOneAndAHalfTiles ==
    (pc = "ray_done" /\ CentreFacingPlusX) =>
        /\ ray_hits[1].distance = FMul(F32(3, 2), maze.tile_size)
        /\ ray_hits[1].hit_vertical

C8_Witness ==
    /\ pc = "ray_done"
    /\ CentreFacingPlusX
    /\ maze.tile_size = IntAsF32(2)
    /\ ray_hits[1].map_x = 4
    /\ ray_hits[1].map_y = 2

(***************************************************************************)
(* SpecGrid: one grid query, is_wall on a cell or is_walkable on a world   *)
(* position                                                                *)
(***************************************************************************)
\* how many cells past the last row and column a query may name
MaxCellsOutside == 2

\* cell indices along an axis of `size` cells: those of the grid, the ones
\* just past it, and the largest usize
CellIndices(size) == 0..(size - 1 + MaxCellsOutside) \cup {UsizeMax}

InitGrid ==
    /\ maze \in Mazes
    /\ \/ \E x \in CellIndices(maze.width), y \in CellIndices(maze.height) :
              query = [kind |-> "is_wall", x |-> x, y |-> y, result |-> FALSE]
       \/ \E x \in Coords(maze, maze.width), y \in Coords(maze, maze.height) :
              query = [kind |-> "is_walkable", x |-> x, y |-> y, result |-> FALSE]
    /\ player = PlayerAt(F32(0, 1), F32(0, 1), 0)
    /\ raycaster = RayCasterNew(Fov, 1, IntAsF32(MaxDepth))
    /\ dda = NoDDA
    /\ ray_hits = <<>>
    /\ framebuffer = NoFramebuffer
    /\ textures = NoTextures
    /\ pc = "grid_start"
    /\ NoGame

IsWallQuery ==
    /\ pc = "grid_start"
    /\ query.kind = "is_wall"
    /\ query' = [query EXCEPT !.result = is_wall(maze, query.x, query.y)]
    /\ pc' = "grid_done"
    /\ UNCHANGED <<maze, player, raycaster, dda, ray_hits, framebuffer, textures, game_vars>>
    /\ UNCHANGED play_vars

IsWalkableQuery ==
    /\ pc = "grid_start"
    /\ query.kind = "is_walkable"
    /\ query' = [query EXCEPT !.result = is_walkable(maze, query.x, query.y)]
    /\ pc' = "grid_done"
    /\ UNCHANGED <<maze, player, raycaster, dda, ray_hits, framebuffer, textures, game_vars>>
    /\ UNCHANGED play_vars

NextGrid == IsWallQuery \/ IsWalkableQuery

SpecGrid == InitGrid /\ [][NextGrid]_vars

\* the cell a world position maps to lies outside the grid
MapsOutside(m, world_x, world_y) ==
    \/ AsUsize(FDiv(world_x, m.tile_size)) >= m.width
    \/ AsUsize(FDiv(world_y, m.tile_size)) >= m.height

\* C3: a query outside the grid is opaque: is_wall of a cell with x >= width
\* or y >= height is true, and is_walkable of a world position that maps
\* outside the grid is false.
C3_OutsideIsOpaque ==
    pc = "grid_done" =>
        /\ (query.kind = "is_wall" /\ (query.x >= maze.width \/ query.y >= maze.height))
               => query.result = TRUE
        /\ (query.kind = "is_walkable" /\ MapsOutside(maze, query.x, query.y))
               => query.result = FALSE

(***************************************************************************)
(* SpecTex: one texture lookup, Texture::sample or Texture::sample_point   *)
(***************************************************************************)
\* the index `self.pixels[i]` reads, or the panic of an index out of range
PixelsIndex(tex, i) == IF i < tex.len THEN [panic |-> FALSE, idx |-> i]
                       ELSE [panic |-> TRUE, idx |-> i]

\* Texture::sample without `.min(self.width - 1)` and `.min(self.height - 1)`
sample_unclamped(tex, u, v) ==
    PixelsIndex(tex, AsUsize(FMul(v, IntAsF32(tex.height))) * tex.width
                         + AsUsize(FMul(u, IntAsF32(tex.width))))

\* Texture::sample
sample(tex, u, v) ==
    LET x == Min(AsUsize(FMul(u, IntAsF32(tex.width))), tex.width - 1)
        y == Min(AsUsize(FMul(v, IntAsF32(tex.height))), tex.height - 1)
    IN  PixelsIndex(tex, y * tex.width + x)

\* Texture::sample_point
sample_point(tex, tex_x, tex_y) ==
    LET x == Min(tex_x, tex.width - 1)
        y == Min(tex_y, tex.height - 1)
    IN  PixelsIndex(tex, y * tex.width + x)

\* normalized coordinates: inside [0, 1], below, above, and the non-finite
UVs == {F32(k, 4) : k \in -2..6} \cup {F32(UsizeMax, 1), NaN, Inf, FNeg(Inf)}

\* pixel coordinates: inside the texture, past it, and the largest usize
TexCoords == 0..(MaxTextureSize + 2) \cup {UsizeMax}

InitTex ==
    /\ \E w \in 1..(MaxTextureSize + 1), h \in 1..(MaxTextureSize + 1) :
           textures = [NoTextures EXCEPT !.wall = TextureNew(w, h)]
    /\ \/ \E u \in UVs, v \in UVs :
              query = [kind |-> "sample", x |-> u, y |-> v,
                       result |-> PixelsIndex(TextureNew(1, 1), 0)]
       \/ \E x \in TexCoords, y \in TexCoords :
              query = [kind |-> "sample_point", x |-> x, y |-> y,
                       result |-> PixelsIndex(TextureNew(1, 1), 0)]
    /\ maze = MazeOf(Map3, Unit)
    /\ player = PlayerAt(F32(0, 1), F32(0, 1), 0)
    /\ raycaster = RayCasterNew(Fov, 1, IntAsF32(MaxDepth))
    /\ dda = NoDDA
    /\ ray_hits = <<>>
    /\ framebuffer = NoFramebuffer
    /\ pc = "tex_start"
    /\ NoGame

Sample ==
    /\ pc = "tex_start"
    /\ query.kind = "sample"
    /\ query' = [query EXCEPT !.result = sample(textures.wall, query.x, query.y)]
    /\ pc' = "tex_done"
    /\ UNCHANGED <<maze, player, raycaster, dda, ray_hits, framebuffer, textures, game_vars>>
    /\ UNCHANGED play_vars

SamplePoint ==
    /\ pc = "tex_start"
    /\ query.kind = "sample_point"
    /\ query' = [query EXCEPT !.result = sample_point(textures.wall, query.x, query.y)]
    /\ pc' = "tex_done"
    /\ UNCHANGED <<maze, player, raycaster, dda, ray_hits, framebuffer, textures, game_vars>>
    /\ UNCHANGED play_vars

NextTex == Sample \/ SamplePoint

SpecTex == InitTex /\ [][NextTex]_vars

\* the integer coordinate k clamped to [0, size - 1]
ClampCoord(k, size) == IF k < 0 THEN 0 ELSE IF k > size - 1 THEN size - 1 ELSE k

\* the texel a normalized coordinate names along an axis of `size` texels,
\* clamped: NaN and -inf name texel 0, +inf the last one
ClampUV(u, size) ==
    IF IsFinite(u) THEN ClampCoord(Floor(FMul(u, IntAsF32(size))), size)
    ELSE IF u = Inf THEN size - 1 ELSE 0

\* C10: sample and sample_point never index outside the pixel array, and the
\* pixel they return is the one at the coordinate clamped to
\* [0, width-1] x [0, height-1], for negative, above-range and non-finite
\* coordinates too.
C10_SampleClamps ==
    pc = "tex_done" =>
        LET tex == textures.wall IN
        /\ ~query.result.panic
        /\ query.kind = "sample" =>
               query.result.idx =
                   ClampUV(query.y, tex.height) * tex.width + ClampUV(query.x, tex.width)
        /\ query.kind = "sample_point" =>
               query.result.idx =
                   ClampCoord(query.y, tex.height) * tex.width
                       + ClampCoord(query.x, tex.width)

C10_Witness ==
    /\ pc = "tex_done"
    /\ query.kind = "sample"
    /\ query.x = Inf
    /\ IsNaN(query.y)
    /\ textures.wall.width = 2
    /\ query.result = PixelsIndex(textures.wall, 1)

(***************************************************************************)
(* SpecLoad: TextureManager::new over the image files, then one frame      *)
(***************************************************************************)
\* GameState::new, line 53: TextureManager::new(64)
TextureSize == 64

\* an image file: missing or unreadable, or an image of some dimensions
Images == {MissingImage, [loads |-> TRUE, width |-> 0, height |-> 1],
           [loads |-> TRUE, width |-> 1, height |-> 1],
           [loads |-> TRUE, width |-> 2, height |-> 3]}

\* HashMap::insert
Insert(store, name, tex) ==
    [n \in DOMAIN store \cup {name} |-> IF n = name THEN tex ELSE store[n]]

\* load_png_textures, lines 58-63: the files in the order they are tried
texture_paths == <<"wall", "wall_exit", "floor", "ceiling">>

\* Image::load_image succeeded and convert_image_to_texture returned Ok
Converts(image) == image.loads /\ image.width # 0 /\ image.height # 0

\* load_png_textures, lines 67-86: the store after the first k files
RECURSIVE LoadedStore(_, _)
LoadedStore(files, k) ==
    IF k = 0 THEN <<>>
    ELSE LET name == texture_paths[k]
             before == LoadedStore(files, k - 1)
         IN  IF Converts(files[name])
             THEN Insert(before, name, TextureNew(files[name].width, files[name].height))
             ELSE before

\* load_png_textures, lines 65-89: success_count
SuccessCount(files) == Cardinality({name \in TextureNames : Converts(files[name])})

\* the result of load_png_textures, line 89
EnoughLoaded(files) == SuccessCount(files) >= 2

\* generate_backrooms_textures: four inserts of size x size textures
generate_backrooms_textures(store, size) ==
    Insert(Insert(Insert(Insert(store, "wall", TextureNew(size, size)),
                         "wall_exit", TextureNew(size, size)),
                  "ceiling", TextureNew(size, size)),
           "floor", TextureNew(size, size))

\* the frame SpecLoad renders once the store is built
InitLoad ==
    /\ assets \in [TextureNames -> Images]
    /\ textures = <<>>
    /\ maze = MazeOf(Map5, Unit)
    /\ player = PlayerAt(F32(5 * Unit, 2 * Unit), F32(5 * Unit, 2 * Unit), 0)
    /\ raycaster = RayCasterNew(Fov, 2, IntAsF32(MaxDepth))
    /\ dda = NoDDA
    /\ ray_hits = <<>>
    /\ framebuffer = FramebufferNew(2, 2)
    /\ query = NoQuery
    /\ state = "Playing"
    /\ effects = EffectsNew
    /\ frame_log = <<>>
    /\ pc = "load_start"
    /\ NoPlay

\* TextureManager::new, line 48
LoadPngTextures ==
    /\ pc = "load_start"
    /\ textures' = LoadedStore(assets, Len(texture_paths))
    /\ pc' = IF EnoughLoaded(assets) THEN "frame_start" ELSE "load_failed"
    /\ UNCHANGED <<maze, player, raycaster, dda, ray_hits, framebuffer, query, game_vars>>
    /\ UNCHANGED play_vars

\* TextureManager::new, lines 49-50
GenerateBackroomsTextures ==
    /\ pc = "load_failed"
    /\ textures' = generate_backrooms_textures(textures, TextureSize)
    /\ pc' = "frame_start"
    /\ UNCHANGED <<maze, player, raycaster, dda, ray_hits, framebuffer, query, game_vars>>
    /\ UNCHANGED play_vars

NextLoad == LoadPngTextures \/ GenerateBackroomsTextures \/ Render3DView

SpecLoad == InitLoad /\ [][NextLoad]_vars

\* C11: once TextureManager::new has returned, the four textures are in the
\* store with pixels.len() = width * height, whichever image files loaded, and
\* render_3d_view does not fail on a missing texture.
C11_AllTexturesPresent ==
    pc \in {"frame_start", "frame_painted", "panic"} =>
        /\ TextureNames \subseteq DOMAIN textures
        /\ \A name \in DOMAIN textures :
               textures[name].len = textures[name].width * textures[name].height
        /\ pc # "panic"

(***************************************************************************)
(* SpecEffects: one call of a pure shading or fog function                 *)
(***************************************************************************)
\* `f as u8`: truncation toward zero, saturating, NaN to 0
AsU8(a) ==
    IF a.d = 0 THEN (IF a.n > 0 THEN 255 ELSE 0)
    ELSE IF a.n <= 0 THEN 0
    ELSE Min(a.n \div a.d, 255)

\* one channel of the fog blend: ((1.0 - fog_factor) * c + fog_factor * f) as u8
FogChannel(c, f, fog_factor) ==
    AsU8(FAdd(FMul(FSub(IntAsF32(1), fog_factor), IntAsF32(c)),
              FMul(fog_factor, IntAsF32(f))))

\* the blend with the weights of the colour and of the fog exchanged
FogColorSwapped(color, fog_color, fog_factor) ==
    Color(FogChannel(fog_color.r, color.r, fog_factor),
          FogChannel(fog_color.g, color.g, fog_factor),
          FogChannel(fog_color.b, color.b, fog_factor), 255)

\* lines 167-172 of framebuffer.rs and 39-44 of effects.rs: the blended colour,
\* its alpha set to 255
FogColor(color, fog_color, fog_factor) ==
    Color(FogChannel(color.r, fog_color.r, fog_factor),
          FogChannel(color.g, fog_color.g, fog_factor),
          FogChannel(color.b, fog_color.b, fog_factor), 255)

\* apply_fog without `.min(1.0)`
apply_fog_unclamped(color, distance, max_distance, fog_color) ==
    FogColor(color, fog_color, FDiv(distance, max_distance))

\* Framebuffer::apply_fog
Framebuffer_apply_fog(color, distance, max_distance, fog_color) ==
    FogColor(color, fog_color, FMin(FDiv(distance, max_distance), IntAsF32(1)))

\* Effects::apply_fog
Effects_apply_fog(e, color, distance) ==
    IF ~e.fog_enabled THEN color
    ELSE FogColor(color, e.fog_color, FClamp01(FDiv(distance, e.fog_distance)))

\* the largest distance, in half units, the shading and fog functions are given
MaxDistance == 4

\* distances: every half unit up to MaxDistance, negative, past the default
\* fog distance, and the non-finite
Distances ==
    {F32(k, 2) : k \in -2..(2 * MaxDistance)}
        \cup {IntAsF32(15), IntAsF32(16), Inf, FNeg(Inf), NaN}

\* fog and shading ranges: the defaults of Effects::new and GameState::new, a
\* short one, and the degenerate ones
FogDistances == {IntAsF32(15), IntAsF32(1), IntAsF32(0), IntAsF32(-1), Inf, NaN}

Colors == {Color(0, 0, 0, 255), Color(200, 100, 7, 255), Color(255, 255, 255, 0),
           Color(10, 20, 30, 128)}

FogColors == {Color(80, 75, 50, 255), Color(1, 2, 3, 64)}

NoCall ==
    [kind |-> "none", color |-> Color(0, 0, 0, 255), distance |-> IntAsF32(0),
     distance2 |-> IntAsF32(0), max_distance |-> IntAsF32(1),
     shade |-> IntAsF32(1), shade2 |-> IntAsF32(1), fogged |-> Color(0, 0, 0, 255)]

InitEffects ==
    /\ \/ \E d1 \in Distances, d2 \in Distances,
             m \in {IntAsF32(MaxDepth), IntAsF32(1), F32(1, 2)} :
              /\ query = [NoCall EXCEPT !.kind = "calculate_distance_shading",
                                        !.distance = d1, !.distance2 = d2,
                                        !.max_distance = m]
              /\ effects = EffectsNew
       \/ \E k \in {"Framebuffer::apply_fog", "Effects::apply_fog"},
             c \in Colors, d \in Distances, fd \in FogDistances, fc \in FogColors,
             on \in BOOLEAN :
              /\ query = [NoCall EXCEPT !.kind = k, !.color = c, !.distance = d,
                                        !.max_distance = fd]
              /\ effects = [EffectsNew EXCEPT !.fog_enabled = on, !.fog_distance = fd,
                                              !.fog_color = fc]
    /\ maze = MazeOf(Map3, Unit)
    /\ player = PlayerAt(F32(0, 1), F32(0, 1), 0)
    /\ raycaster = RayCasterNew(Fov, 1, IntAsF32(MaxDepth))
    /\ dda = NoDDA
    /\ ray_hits = <<>>
    /\ framebuffer = NoFramebuffer
    /\ textures = NoTextures
    /\ assets = NoAssets
    /\ state = "Playing"
    /\ frame_log = <<>>
    /\ pc = "effects_start"
    /\ NoPlay

CalculateDistanceShading ==
    /\ pc = "effects_start"
    /\ query.kind = "calculate_distance_shading"
    /\ query' = [query EXCEPT
                    !.shade = calculate_distance_shading(query.distance, query.max_distance),
                    !.shade2 = calculate_distance_shading(query.distance2, query.max_distance)]
    /\ pc' = "effects_done"
    /\ UNCHANGED <<maze, player, raycaster, dda, ray_hits, framebuffer, textures, game_vars>>
    /\ UNCHANGED play_vars

FramebufferApplyFog ==
    /\ pc = "effects_start"
    /\ query.kind = "Framebuffer::apply_fog"
    /\ query' = [query EXCEPT
                    !.fogged = Framebuffer_apply_fog(query.color, query.distance,
                                                     query.max_distance, effects.fog_color)]
    /\ pc' = "effects_done"
    /\ UNCHANGED <<maze, player, raycaster, dda, ray_hits, framebuffer, textures, game_vars>>
    /\ UNCHANGED play_vars

EffectsApplyFog ==
    /\ pc = "effects_start"
    /\ query.kind = "Effects::apply_fog"
    /\ query' = [query EXCEPT !.fogged = Effects_apply_fog(effects, query.color, query.distance)]
    /\ pc' = "effects_done"
    /\ UNCHANGED <<maze, player, raycaster, dda, ray_hits, framebuffer, textures, game_vars>>
    /\ UNCHANGED play_vars

NextEffects == CalculateDistanceShading \/ FramebufferApplyFog \/ EffectsApplyFog

SpecEffects == InitEffects /\ [][NextEffects]_vars

\* a call of calculate_distance_shading on two distances has returned
ShadedPair == pc = "effects_done" /\ query.kind = "calculate_distance_shading"

\* C12: for a max_distance > 0 and d1 < d2 the shade of d1 is at least the shade
\* of d2, and no shade is below 0.75, the brightness at d >= max_distance.
C12_ShadingMonotonic ==
    (ShadedPair /\ FLess(IntAsF32(0), query.max_distance)) =>
        /\ FLess(query.distance, query.distance2) => FLeq(query.shade2, query.shade)
        /\ ~IsNaN(query.distance) => FLeq(F32(3, 4), query.shade)
        /\ FLeq(query.max_distance, query.distance) => query.shade = F32(3, 4)

C12_Witness ==
    /\ ShadedPair
    /\ query.max_distance = IntAsF32(1)
    /\ FLess(query.distance, query.distance2)
    /\ FLess(query.shade2, query.shade)
    /\ FLess(query.max_distance, query.distance2)

\* a call of one of the two fog functions has returned
Fogged == pc = "effects_done" /\ query.kind \in {"Framebuffer::apply_fog", "Effects::apply_fog"}

\* the call blended: Effects::apply_fog returns its input when fog is disabled
Blended == Fogged /\ (query.kind = "Effects::apply_fog" => effects.fog_enabled)

\* a colour with its alpha channel set to 255
Opaque(c) == [c EXCEPT !.a = 255]

\* C13 as stated: at distance 0 the fog blend returns the input colour, for
\* every colour, fog distance and fog colour.
C13_FogIdentityAtZero ==
    (Fogged /\ query.distance = IntAsF32(0)) => query.fogged = query.color

\* C13, amended: at distance 0 and for a fog distance that is neither 0 nor
\* NaN, the fog blend returns the red, green and blue of the input colour with
\* alpha 255; Effects::apply_fog with fog disabled returns the input colour.
C13_FogKeepsRgbAtZero ==
    (Fogged /\ query.distance = IntAsF32(0)
        /\ effects.fog_distance # IntAsF32(0) /\ ~IsNaN(effects.fog_distance)) =>
        query.fogged = IF Blended THEN Opaque(query.color) ELSE query.color

C13_Witness ==
    /\ Blended
    /\ query.kind = "Framebuffer::apply_fog"
    /\ query.distance = IntAsF32(0)
    /\ effects.fog_distance = IntAsF32(15)
    /\ query.color = Color(10, 20, 30, 128)
    /\ query.fogged = Color(10, 20, 30, 255)

\* the distance is at or beyond the fog distance
AtOrBeyondFog == FLeq(effects.fog_distance, query.distance)

\* C14 as stated: at the fog distance and at every distance beyond it the fog
\* blend returns the fog colour, for every colour and fog colour.
C14_FogSaturates ==
    (Fogged /\ AtOrBeyondFog) => query.fogged = effects.fog_color

\* C14, amended: for a finite fog distance > 0, at the fog distance and at every
\* distance beyond it, Framebuffer::apply_fog, and Effects::apply_fog with fog
\* enabled, return the red, green and blue of the fog colour with alpha 255;
\* Effects::apply_fog with fog disabled returns the input colour.
C14_FogSaturatesRgb ==
    (Fogged /\ AtOrBeyondFog /\ IsFinite(effects.fog_distance)
        /\ FLess(IntAsF32(0), effects.fog_distance)) =>
        query.fogged = IF Blended THEN Opaque(effects.fog_color) ELSE query.color

C14_Witness ==
    /\ Blended
    /\ query.kind = "Effects::apply_fog"
    /\ effects.fog_distance = IntAsF32(1)
    /\ query.distance = F32(3, 2)
    /\ effects.fog_color = Color(1, 2, 3, 64)
    /\ query.color = Color(200, 100, 7, 255)
    /\ query.fogged = Color(1, 2, 3, 255)

(***************************************************************************)
(* SpecRender: GameState::render, frame after frame                        *)
(***************************************************************************)
\* the steps per unit to which the model resolves a square root
SqrtDen == 10

\* f32::sqrt, resolved to 1/SqrtDen
Sqrt(a) ==
    IF a.d = 0 THEN (IF a.n > 0 THEN a ELSE NaN)
    ELSE IF a.n < 0 THEN NaN
    ELSE LET v == (a.n * SqrtDen * SqrtDen) \div a.d
         IN  F32(CHOOSE r \in 0..(SqrtDen * (Floor(a) + 1)) :
                     r * r <= v /\ v < (r + 1) * (r + 1), SqrtDen)

\* the buffer indices the loops of apply_vignette_effect go over, all but the
\* last row and column
VignettePixelsInset(fb) ==
    {y * fb.width + x + 1 : y \in 0..(fb.height - 2), x \in 0..(fb.width - 2)}

\* lines 131-132: the buffer indices `for y in 0..self.height`,
\* `for x in 0..self.width` go over
VignettePixels(fb) ==
    {y * fb.width + x + 1 : y \in 0..(fb.height - 1), x \in 0..(fb.width - 1)}

\* line 139: `self.buffer[index]` with an index past the buffer
VignettePanics(fb) == \E i \in VignettePixels(fb) : i > Len(fb.buffer)

\* lines 133-137: vignette_strength of the pixel (x, y)
VignetteStrength(x, y, intensity, screen_width, screen_height) ==
    LET center_x == FDiv(IntAsF32(screen_width), IntAsF32(2))
        center_y == FDiv(IntAsF32(screen_height), IntAsF32(2))
        dx == FDiv(FSub(IntAsF32(x), center_x), center_x)
        dy == FDiv(FSub(IntAsF32(y), center_y), center_y)
        distance == Sqrt(FAdd(FMul(dx, dx), FMul(dy, dy)))
    IN  FMin(FMul(FMul(distance, intensity), F32(7, 10)), F32(8, 10))

\* Framebuffer::apply_vignette_effect: every channel of a pixel times
\* 1.0 - vignette_strength
apply_vignette_effect(fb, intensity, screen_width, screen_height) ==
    IF FLeq(intensity, IntAsF32(0)) THEN fb
    ELSE [fb EXCEPT !.buffer =
             [i \in DOMAIN @ |->
                 IF i \in VignettePixels(fb)
                 THEN [@[i] EXCEPT !.shade =
                          FMul(@, FSub(IntAsF32(1),
                                       VignetteStrength((i - 1) % fb.width, (i - 1) \div fb.width,
                                                        intensity, screen_width, screen_height)))]
                 ELSE @[i]]]

States == {"Menu", "Playing", "Victory", "GameOver"}

\* anxiety_intensity: Effects::update keeps it in [0, 1]
Intensities == {IntAsF32(0), F32(1, 2), IntAsF32(1)}

\* the screens of SpecRender, the zero-size ones among them
RenderScreens == {<<0, 0>>, <<0, 2>>, <<2, 0>>, <<1, 1>>, <<2, 2>>, <<3, 2>>}

\* the poses of SpecRender in the 5x5 maze: the centre, and a point on the
\* face of the west wall, from where a ray heading west has length 0
RenderPoses ==
    {PlayerAt(x, F32(5, 2), a) : x \in {F32(5, 2), IntAsF32(1)}, a \in {0, 1, 6, 12, 17}}

InitRender ==
    /\ maze = MazeOf(Map5, Unit)
    /\ player \in RenderPoses
    /\ \E fov \in {0, Fov}, n \in {0, 1, 2} : raycaster = RayCasterNew(fov, n, IntAsF32(MaxDepth))
    /\ dda = NoDDA
    /\ ray_hits = <<>>
    /\ \E s \in RenderScreens : framebuffer = FramebufferNew(s[1], s[2])
    /\ textures = GeneratedTextures(MaxTextureSize)
    /\ query = NoQuery
    /\ assets = NoAssets
    /\ state \in States
    /\ \E i \in Intensities : effects = [EffectsNew EXCEPT !.anxiety_intensity = i]
    /\ frame_log = <<>>
    /\ pc = "render_start"
    /\ NoPlay

\* render, line 269: `match self.state`
Render ==
    /\ pc = "render_start"
    /\ pc' = IF state = "Menu" THEN "menu" ELSE "frame_start"
    /\ UNCHANGED <<maze, player, raycaster, dda, ray_hits, framebuffer, textures, query, game_vars>>
    /\ UNCHANGED play_vars

\* render, lines 270-272: the menu is drawn without the framebuffer
RenderMenu ==
    /\ pc = "menu"
    /\ frame_log' = Append(frame_log, [pass |-> "render_menu", pixels |-> {}])
    /\ pc' = "frame_presented"
    /\ UNCHANGED <<maze, player, raycaster, dda, ray_hits, framebuffer, textures, query,
                   assets, state, effects>>
    /\ UNCHANGED play_vars

\* render, lines 277-283: the anxiety vignette of a game being played
ApplyVignetteEffect ==
    /\ pc = "frame_painted"
    /\ state = "Playing"
    /\ FLess(IntAsF32(0), effects.anxiety_intensity)
    /\ IF VignettePanics(framebuffer)
       THEN /\ pc' = "panic"
            /\ UNCHANGED <<framebuffer, frame_log>>
       ELSE /\ framebuffer' = apply_vignette_effect(framebuffer, effects.anxiety_intensity,
                                                    framebuffer.width, framebuffer.height)
            /\ frame_log' = Append(frame_log, [pass |-> "apply_vignette_effect",
                                               pixels |-> VignettePixels(framebuffer)])
            /\ pc' = "frame_vignetted"
    /\ UNCHANGED <<maze, player, raycaster, dda, ray_hits, textures, query, assets, state, effects>>
    /\ UNCHANGED play_vars

\* render, lines 285, 304 and 309: Framebuffer::render hands every pixel of the
\* buffer to the draw handle
FramebufferRender ==
    /\ \/ pc = "frame_vignetted"
       \/ /\ pc = "frame_painted"
          /\ ~(state = "Playing" /\ FLess(IntAsF32(0), effects.anxiety_intensity))
    /\ frame_log' = Append(frame_log, [pass |-> "render", pixels |-> DOMAIN framebuffer.buffer])
    /\ pc' = "frame_presented"
    /\ UNCHANGED <<maze, player, raycaster, dda, ray_hits, framebuffer, textures, query,
                   assets, state, effects>>
    /\ UNCHANGED play_vars

\* how many frames a behaviour of SpecRender renders
MaxFrames == 2

\* the positions in the record of the passes of one kind
AllPasses(kind) == {i \in 1..Len(frame_log) : frame_log[i].pass = kind}

\* the next call of render: the framebuffer keeps the pixels of this frame
NextFrame ==
    /\ pc = "frame_presented"
    /\ Cardinality(AllPasses("next_frame")) < MaxFrames - 1
    /\ frame_log' = Append(frame_log, [pass |-> "next_frame", pixels |-> {}])
    /\ pc' = "render_start"
    /\ UNCHANGED <<maze, player, raycaster, dda, ray_hits, framebuffer, textures, query,
                   assets, state, effects>>
    /\ UNCHANGED play_vars

NextRender ==
    Render \/ RenderMenu \/ Render3DView \/ ApplyVignetteEffect \/ FramebufferRender \/ NextFrame

SpecRender == InitRender /\ [][NextRender]_vars

\* the positions in the record of the passes of one kind in the current frame
Passes(kind) == {i \in AllPasses(kind) : \A f \in AllPasses("next_frame") : f < i}

\* the current frame has been presented
Presented == pc = "frame_presented"

\* C15: in a frame the vignette runs at most once, and exactly once when it is
\* due (a game being played with anxiety_intensity > 0); it goes over every
\* pixel of the buffer, after the painting of render_3d_view and before the
\* buffer is presented, and nothing is painted after it.
C15_VignetteOncePerFrame ==
    /\ Cardinality(Passes("apply_vignette_effect")) <= 1
    /\ \A v \in Passes("apply_vignette_effect") :
           /\ frame_log[v].pixels = DOMAIN framebuffer.buffer
           /\ \E r \in Passes("render_3d_view") : r < v
           /\ \A r \in Passes("render_3d_view") : r < v
           /\ \A d \in Passes("render") : v < d
    /\ (Presented /\ state = "Playing"
            /\ FLess(IntAsF32(0), effects.anxiety_intensity)) =>
           Cardinality(Passes("apply_vignette_effect")) = 1

C15_Witness ==
    /\ Presented
    /\ Cardinality(AllPasses("next_frame")) = 1
    /\ \E v \in Passes("apply_vignette_effect") : Cardinality(frame_log[v].pixels) = 6
    /\ Passes("render") # {}
    /\ \E i \in PaintedPixels(framebuffer) : FLess(framebuffer.buffer[i].shade, F32(1, 2))

\* a zero-size screen, no ray column, a zero field of view or a hit at
\* distance 0
DegenerateFrame ==
    \/ framebuffer.width = 0
    \/ framebuffer.height = 0
    \/ raycaster.num_rays = 0
    \/ raycaster.fov = 0
    \/ \E i \in 1..Len(ray_hits) : ray_hits[i].distance = IntAsF32(0)

\* C17: a frame with a zero-size screen, no ray column, a zero field of view or
\* a zero-distance hit never panics, and once presented render_3d_view has
\* returned as many hits as the caster has rays, and the vignette, when due,
\* has run.
C17_DegenerateFrameCompletes ==
    DegenerateFrame =>
        /\ pc # "panic"
        /\ (Presented /\ state # "Menu") =>
               /\ Passes("render_3d_view") # {}
               /\ Len(ray_hits) = raycaster.num_rays
               /\ (state = "Playing" /\ FLess(IntAsF32(0), effects.anxiety_intensity)) =>
                      Passes("apply_vignette_effect") # {}

C17_Witness ==
    /\ Presented
    /\ Passes("apply_vignette_effect") # {}
    /\ framebuffer.width = 0
    /\ raycaster.fov = 0
    /\ \E i \in 1..Len(ray_hits) : ray_hits[i].distance = IntAsF32(0)

(***************************************************************************)
(* Claims about the compositor (Spec)                                      *)
(***************************************************************************)
\* a second buffer of the size of the framebuffer, holding other pixels
\* before the frame
OtherFramebuffer ==
    [width |-> framebuffer.width, height |-> framebuffer.height,
     buffer |-> [i \in DOMAIN framebuffer.buffer |-> Pixel("previous", 1, F32(1, 2))]]

\* C16: the hits, textures and pose of a frame painted into a second buffer of
\* the same size, holding other pixels before, give the same buffer.
C16_RenderDeterministic ==
    pc = "frame_painted" =>
        PaintRays(OtherFramebuffer, 0, ray_hits, raycaster, player, maze, textures).buffer
            = framebuffer.buffer

\* the wall texture of the column of a hit
WallTextureOf(hit) ==
    textures[IF get_wall_type(maze, hit.map_x, hit.map_y) = "E" THEN "wall_exit" ELSE "wall"]

\* C18: every texture lookup of a frame is inside the texture: the wall
\* texture column of every hit is in [0, tex_width - 1], and every pixel
\* painted names a texel below the pixel count of its texture.
C18_TextureIndicesClamped ==
    pc = "frame_painted" =>
        /\ \A i \in 1..Len(ray_hits) :
               AsUsize(FMul(ray_hits[i].wall_x, IntAsF32(WallTextureOf(ray_hits[i]).width)))
                   <= WallTextureOf(ray_hits[i]).width - 1
        /\ \A i \in PaintedPixels(framebuffer) :
               framebuffer.buffer[i].idx < textures[framebuffer.buffer[i].src].len

\* the screen columns of hit number ray_index, counted from 0
ColumnsOf(ray_index) ==
    ((ray_index * framebuffer.width) \div Len(ray_hits))
        ..((((ray_index + 1) * framebuffer.width) \div Len(ray_hits)) - 1)

\* the pixels of a screen column that a wall texture was painted on
WallPixels(x) ==
    {i \in PaintedPixels(framebuffer) :
        (i - 1) % framebuffer.width = x /\ framebuffer.buffer[i].src \in {"wall", "wall_exit"}}

FloorPixels(x) ==
    {i \in PaintedPixels(framebuffer) :
        (i - 1) % framebuffer.width = x /\ framebuffer.buffer[i].src = "floor"}

\* the factor the floor of the columns of a hit would be blended by
FloorFogFactor(hit) == FClamp01(FDiv(hit.distance, raycaster.max_depth))

\* C20: floor pixels that sample the same texel below wall hits whose fog
\* factors clamp(distance / fog_distance, 0, 1) differ have different colours.
C20_FloorFoggedByHitDistance ==
    pc = "frame_painted" =>
        \A r1, r2 \in 0..(Len(ray_hits) - 1) :
            FloorFogFactor(ray_hits[r1 + 1]) # FloorFogFactor(ray_hits[r2 + 1]) =>
                \A x1 \in ColumnsOf(r1), x2 \in ColumnsOf(r2) :
                    \A i \in FloorPixels(x1), j \in FloorPixels(x2) :
                        framebuffer.buffer[i].idx = framebuffer.buffer[j].idx
                            => framebuffer.buffer[i] # framebuffer.buffer[j]

(***************************************************************************)
(* SpecSpan: the wall span of one column (render_3d_view, lines 331-416)   *)
(***************************************************************************)
MaxSpanHeight == 6

\* hit distances: zero, below and at the floor of 0.1, quarters up to
\* MaxDistance, beyond max_depth, and the values that are not >= 0
SpanDistances ==
    {F32(k, 4) : k \in 0..(4 * MaxDistance)}
        \cup {F32(1, 20), F32(1, 10), F32(3, 10), IntAsF32(MaxDepth + 1), Inf,
              F32(-1, 2), NaN}

InitSpan ==
    /\ \E h \in 0..MaxSpanHeight, d \in SpanDistances, v \in BOOLEAN :
           /\ framebuffer = FramebufferNew(1, h)
           /\ ray_hits = <<[distance |-> d, wall_x |-> F32(1, 2), hit_vertical |-> v,
                            map_x |-> 2, map_y |-> 1]>>
    /\ maze = MazeOf(Map3w, Unit)
    /\ player = PlayerAt(F32(3, 2), F32(3, 2), 0)
    /\ raycaster = RayCasterNew(Fov, 1, IntAsF32(MaxDepth))
    /\ dda = NoDDA
    /\ textures = LoadedTextures
    /\ query = NoQuery
    /\ NoGame
    /\ pc = "span_start"

\* the loop of render_3d_view (lines 331-416) over the given hit
PaintWallSpan ==
    /\ pc = "span_start"
    /\ framebuffer' = PaintRays(framebuffer, 0, ray_hits, raycaster, player, maze, textures)
    /\ pc' = "span_done"
    /\ UNCHANGED <<maze, player, raycaster, dda, ray_hits, textures, query, game_vars>>
    /\ UNCHANGED play_vars

NextSpan == PaintWallSpan

SpecSpan == InitSpan /\ [][NextSpan]_vars

\* the rows of the column that a wall texture was painted on
WallRows == {(i - 1) \div framebuffer.width : i \in WallPixels(0)}

\* C21: for a hit distance d >= 0 the span has 0 <= draw_start <= draw_end and
\* the wall rows are those of the span inside the screen.  With
\* wall_height = screen_height / max(d, 0.1): a span that fits the screen is
\* centred (draw_start + draw_end is screen_height, or one less by truncation)
\* and draw_end - draw_start is within one row of wall_height; a higher span
\* covers the whole column; below the floor 0.1, and so at d = 0, the span is
\* that of d = 0.1, rows 0 to 5.5 * screen_height.
C21_WallSpanCentred ==
    LET hit == ray_hits[1]
        h == framebuffer.height
        d == hit.distance
        draw_start == DrawStart(framebuffer, hit)
        draw_end == DrawEnd(framebuffer, hit)
        wall_height == FDiv(IntAsF32(h), FMax(d, F32(1, 10)))
    IN  (pc = "span_done" /\ FLeq(IntAsF32(0), d)) =>
            /\ 0 <= draw_start /\ draw_start <= draw_end
            /\ WallRows = draw_start..(Min(draw_end, h) - 1)
            /\ WallRows \subseteq 0..(h - 1)
            /\ FLeq(wall_height, IntAsF32(h)) =>
                   /\ draw_start + draw_end \in {h - 1, h}
                   /\ FLess(FAbs(FSub(IntAsF32(draw_end - draw_start), wall_height)),
                            IntAsF32(1))
            /\ FLess(IntAsF32(h), wall_height) => WallRows = 0..(h - 1)
            /\ FLess(d, F32(1, 10)) =>
                   /\ draw_start = 0 /\ draw_end = (11 * h) \div 2
                   /\ WallRows = 0..(h - 1)

C21_Witness ==
    /\ pc = "span_done"
    /\ framebuffer.height = 4
    /\ ray_hits[1].distance = IntAsF32(2)
    /\ WallRows = {1, 2}
    /\ framebuffer.buffer[1].src = "ceiling"
    /\ framebuffer.buffer[4].src = "floor"

(***************************************************************************)
(* SpecShake: the timers of Effects (effects.rs, lines 81-122)             *)
(***************************************************************************)
\* an angle in radians as a multiple of 15 degrees, the nearest one; PI is
\* taken as 355/113
AngleOf(radians) == Floor(FAdd(FMul(radians, F32(12 * 113, 355)), F32(1, 2)))

\* Effects::trigger_damage_flash
trigger_damage_flash(e) == [e EXCEPT !.damage_flash_timer = F32(3, 10)]

\* Effects::trigger_anxiety_effect
trigger_anxiety_effect(e) ==
    [e EXCEPT !.anxiety_timer = IntAsF32(2), !.anxiety_intensity = IntAsF32(1)]

\* lines 99-103
ShakeOffset(anxiety_timer, anxiety_intensity) ==
    LET time_factor == FMul(anxiety_timer, IntAsF32(10))
        fast == FMul(time_factor, F32(23, 10))
        slow == FMul(time_factor, F32(17, 10))
    IN  << FMul(FAdd(FMul(Sin(AngleOf(time_factor)), IntAsF32(2)),
                     FMul(Cos(AngleOf(fast)), F32(3, 2))), anxiety_intensity),
           FMul(FAdd(FMul(Cos(AngleOf(time_factor)), IntAsF32(2)),
                     FMul(Sin(AngleOf(slow)), F32(3, 2))), anxiety_intensity) >>

\* Effects::update with the timers counting below zero
Effects_update_unclamped(e, delta_time) ==
    [e EXCEPT !.damage_flash_timer = FSub(@, FMul(delta_time, IntAsF32(2))),
              !.anxiety_timer = FSub(@, delta_time),
              !.anxiety_intensity = FMin(FDiv(FSub(e.anxiety_timer, delta_time), IntAsF32(2)),
                                         IntAsF32(1))]

\* Effects::update
Effects_update(e, delta_time) ==
    LET flash == IF FLess(IntAsF32(0), e.damage_flash_timer)
                 THEN FMax(FSub(e.damage_flash_timer, FMul(delta_time, IntAsF32(2))),
                           IntAsF32(0))
                 ELSE e.damage_flash_timer
        timer == FMax(FSub(e.anxiety_timer, delta_time), IntAsF32(0))
        intensity == FMin(FDiv(timer, IntAsF32(2)), IntAsF32(1))
    IN  IF FLess(IntAsF32(0), e.anxiety_timer)
        THEN [e EXCEPT !.damage_flash_timer = flash,
                       !.anxiety_timer = timer,
                       !.anxiety_intensity = intensity,
                       !.screen_shake_offset =
                           IF FLess(IntAsF32(0), intensity)
                           THEN ShakeOffset(timer, intensity)
                           ELSE <<IntAsF32(0), IntAsF32(0)>>]
        ELSE [e EXCEPT !.damage_flash_timer = flash,
                       !.anxiety_intensity = IntAsF32(0),
                       !.screen_shake_offset = <<IntAsF32(0), IntAsF32(0)>>]

\* frame times that are not negative: none, a twentieth, a quarter and a whole
\* second, and one beyond every timer
ShakeFrameTimes == {IntAsF32(0), F32(1, 20), F32(1, 4), IntAsF32(1), Inf}

InitShake ==
    /\ effects = EffectsNew
    /\ query = [kind |-> "none", delta_time |-> IntAsF32(0)]
    /\ maze = MazeOf(Map3, Unit)
    /\ player = PlayerAt(F32(0, 1), F32(0, 1), 0)
    /\ raycaster = RayCasterNew(Fov, 1, IntAsF32(MaxDepth))
    /\ dda = NoDDA
    /\ ray_hits = <<>>
    /\ framebuffer = NoFramebuffer
    /\ textures = NoTextures
    /\ assets = NoAssets
    /\ state = "Playing"
    /\ frame_log = <<>>
    /\ pc = "effects"
    /\ NoPlay

TriggerDamageFlash ==
    /\ pc = "effects"
    /\ effects' = trigger_damage_flash(effects)
    /\ query' = [kind |-> "trigger_damage_flash", delta_time |-> IntAsF32(0)]
    /\ UNCHANGED <<maze, player, raycaster, dda, ray_hits, framebuffer, textures, pc>>
    /\ UNCHANGED <<assets, state, frame_log>>
    /\ UNCHANGED play_vars

TriggerAnxietyEffect ==
    /\ pc = "effects"
    /\ effects' = trigger_anxiety_effect(effects)
    /\ query' = [kind |-> "trigger_anxiety_effect", delta_time |-> IntAsF32(0)]
    /\ UNCHANGED <<maze, player, raycaster, dda, ray_hits, framebuffer, textures, pc>>
    /\ UNCHANGED <<assets, state, frame_log>>
    /\ UNCHANGED play_vars

EffectsUpdate ==
    /\ pc = "effects"
    /\ \E delta_time \in ShakeFrameTimes :
           /\ effects' = Effects_update(effects, delta_time)
           /\ query' = [kind |-> "update", delta_time |-> delta_time]
    /\ UNCHANGED <<maze, player, raycaster, dda, ray_hits, framebuffer, textures, pc>>
    /\ UNCHANGED <<assets, state, frame_log>>
    /\ UNCHANGED play_vars

NextShake == TriggerDamageFlash \/ TriggerAnxietyEffect \/ EffectsUpdate

\* the main loop goes on: some call is always made
SpecShake == InitShake /\ [][NextShake]_vars /\ WF_vars(NextShake)

\* no anxiety effect is running and the screen does not shake
Calm ==
    /\ effects.anxiety_timer = IntAsF32(0)
    /\ effects.anxiety_intensity = IntAsF32(0)
    /\ effects.screen_shake_offset = <<IntAsF32(0), IntAsF32(0)>>

TimersInRange ==
    /\ FLeq(IntAsF32(0), effects.damage_flash_timer)
    /\ FLeq(IntAsF32(0), effects.anxiety_timer)
    /\ FLeq(IntAsF32(0), effects.anxiety_intensity)
    /\ FLeq(effects.anxiety_intensity, IntAsF32(1))

\* the last call was update, with a positive frame time
PositiveUpdate == query.kind = "update" /\ FLess(IntAsF32(0), query.delta_time)

\* C28: whatever triggers and updates with frame times >= 0 were called, both
\* timers are >= 0 and anxiety_intensity is in [0, 1]; and when the triggers
\* stop (every later call is update) while updates with a positive frame time
\* go on, anxiety_timer, anxiety_intensity and screen_shake_offset reach 0 and
\* stay there.
C28_EffectsSettle ==
    /\ []TimersInRange
    /\ (<>[](query.kind = "update") /\ []<>PositiveUpdate) => <>[]Calm

C28_Witness ==
    /\ query.kind = "update"
    /\ FLess(IntAsF32(0), effects.anxiety_timer)
    /\ FLess(effects.anxiety_timer, IntAsF32(2))
    /\ effects.anxiety_intensity = FDiv(effects.anxiety_timer, IntAsF32(2))
    /\ effects.screen_shake_offset[1] # IntAsF32(0)
    /\ FLess(IntAsF32(0), effects.damage_flash_timer)

(***************************************************************************)
(* The player, the pills and the maze of a game (player.rs, pill.rs,       *)
(* maze.rs)                                                                *)
(***************************************************************************)
\* i32 addition and subtraction as a release build computes them: two's
\* complement wrap-around, at the width the model keeps for i32
WrapI32(i) == ((i + I32Max + 1) % (2 * (I32Max + 1))) - (I32Max + 1)

\* a debug build panics on the same sum
OverflowsI32(i) == i > I32Max \/ i < -I32Max - 1

Max(a, b) == IF a > b THEN a ELSE b

\* Player::new
PlayerNew(x, y) ==
    [pos |-> [x |-> x, y |-> y], angle |-> 0, health |-> 100, max_health |-> 100,
     move_speed |-> IntAsF32(3), rot_speed |-> F32(5, 2), collision_radius |-> F32(3, 10)]

\* Player::take_damage
take_damage(p, amount) == [p EXCEPT !.health = Max(WrapI32(@ - amount), 0)]

\* Player::heal
heal(p, amount) == [p EXCEPT !.health = Min(WrapI32(@ + amount), p.max_health)]

\* the point at angle 0 alone
check_collision_ahead(p, m, new_x, new_y) ==
    is_walkable(m, FAdd(new_x, FMul(Cos(0), p.collision_radius)),
                   FAdd(new_y, FMul(Sin(0), p.collision_radius)))

\* Player::check_collision: eight points on the collision circle, 45 degrees apart
check_collision(p, m, new_x, new_y) ==
    \A k \in 0..7 :
        is_walkable(m, FAdd(new_x, FMul(Cos(3 * k), p.collision_radius)),
                       FAdd(new_y, FMul(Sin(3 * k), p.collision_radius)))

\* the step of the four move functions along a heading
MoveAlong(p, m, heading, delta_time) ==
    LET new_x == FAdd(p.pos.x, FMul(FMul(Cos(heading), p.move_speed), delta_time))
        new_y == FAdd(p.pos.y, FMul(FMul(Sin(heading), p.move_speed), delta_time))
    IN  IF check_collision(p, m, new_x, new_y)
        THEN [p EXCEPT !.pos = [x |-> new_x, y |-> new_y]]
        ELSE p

move_forward(p, m, delta_time) == MoveAlong(p, m, p.angle, delta_time)

\* pos - cos(angle) * move_speed * delta_time
move_backward(p, m, delta_time) == MoveAlong(p, m, p.angle + HalfTurn, delta_time)

move_left(p, m, delta_time) == MoveAlong(p, m, p.angle - HalfTurn \div 2, delta_time)

move_right(p, m, delta_time) == MoveAlong(p, m, p.angle + HalfTurn \div 2, delta_time)

\* Player::rotate, the angle kept in [0, 2 PI)
rotate(p, delta_angle) == [p EXCEPT !.angle = (@ + AngleOf(delta_angle)) % FullTurn]

\* Pill::new; glow_timer, the phase of the glow animation, is left out
PillNew(x, y, pill_type) ==
    [pos |-> [x |-> x, y |-> y], pill_type |-> pill_type, collected |-> FALSE]

\* sqrt(dx * dx + dy * dy) < radius, compared as squares
Within(ax, ay, bx, by, radius) ==
    LET dx == FSub(ax, bx)
        dy == FSub(ay, by)
    IN  FLess(FAdd(FMul(dx, dx), FMul(dy, dy)), FMul(radius, radius))

\* Pill::can_collect
can_collect(pill, player_x, player_y, collect_radius) ==
    ~pill.collected /\ Within(pill.pos.x, pill.pos.y, player_x, player_y, collect_radius)

\* FloatingText::new; the colour and the height z are left out
FloatingTextNew(text, x, y) == [text |-> text, pos |-> [x |-> x, y |-> y], lifetime |-> F32(3, 2)]

\* Maze::is_goal
is_goal(m, world_x, world_y, threshold) ==
    Within(world_x, world_y, m.goal_pos[1], m.goal_pos[2], threshold)

\* the centre of a cell (lines 40, 42, 45)
CellCentre(x, y, tile_size) ==
    << FMul(F32(2 * x + 1, 2), tile_size), FMul(F32(2 * y + 1, 2), tile_size) >>

\* the cells holding a tile, and the last of them in the order of the scan
CellsOf(map, tile) ==
    {c \in (0..(Len(map[1]) - 1)) \X (0..(Len(map) - 1)) :
        c[1] < Len(map[c[2] + 1]) /\ map[c[2] + 1][c[1] + 1] = tile}

ScanIndex(map, c) == c[2] * Len(map[1]) + c[1]

LastCell(map, tile) ==
    CHOOSE c \in CellsOf(map, tile) :
        \A o \in CellsOf(map, tile) : ScanIndex(map, o) <= ScanIndex(map, c)

\* the cells of the pills in the order of the scan, from scan index i on
RECURSIVE PillCells(_, _)
PillCells(map, i) ==
    IF i >= Len(map) * Len(map[1]) THEN <<>>
    ELSE LET c == <<i % Len(map[1]), i \div Len(map[1])>>
         IN  (IF c \in CellsOf(map, "p") THEN <<c>> ELSE <<>>) \o PillCells(map, i + 1)

\* Maze::load_from_file on the lines of the file (lines 29-60)
load_from_file(map, tile_size) ==
    [map |-> [y \in DOMAIN map |-> [x \in DOMAIN map[y] |-> IF map[y][x] = "p" THEN "." ELSE map[y][x]]],
     width |-> Len(map[1]), height |-> Len(map), tile_size |-> tile_size,
     start_pos |-> IF CellsOf(map, "S") = {} THEN CellCentre(1, 1, tile_size)
                   ELSE CellCentre(LastCell(map, "S")[1], LastCell(map, "S")[2], tile_size),
     goal_pos |-> IF CellsOf(map, "E") = {} THEN CellCentre(1, 1, tile_size)
                  ELSE CellCentre(LastCell(map, "E")[1], LastCell(map, "E")[2], tile_size),
     pill_positions |-> [i \in DOMAIN PillCells(map, 0) |->
                            CellCentre(PillCells(map, 0)[i][1], PillCells(map, 0)[i][2], tile_size)]]

(***************************************************************************)
(* SpecHealth: calls of Player::take_damage and Player::heal               *)
(***************************************************************************)
\* the amounts of the game (10, 15), the smallest ones and the largest i32
HealthAmounts == {0, 1, 10, 15, I32Max}

\* the rest of the state while one component is exercised on its own
Idle ==
    /\ maze = MazeOf(Map3, Unit)
    /\ raycaster = RayCasterNew(Fov, 1, IntAsF32(MaxDepth))
    /\ dda = NoDDA
    /\ ray_hits = <<>>
    /\ framebuffer = NoFramebuffer
    /\ textures = NoTextures
    /\ NoGame

\* the calls end with the first sum that overflows: a debug build panics, a
\* release build wraps
InitHealth ==
    /\ player = PlayerNew(F32(3, 2), F32(3, 2))
    /\ query = [kind |-> "none", amount |-> 0]
    /\ pc = "health"
    /\ Idle

\* health - amount does not overflow: health is not negative here and the
\* amount is at most the largest i32
TakeDamage ==
    /\ pc = "health"
    /\ \E amount \in HealthAmounts :
           /\ query' = [kind |-> "take_damage", amount |-> amount]
           /\ player' = take_damage(player, amount)
           /\ pc' = pc
    /\ UNCHANGED <<maze, raycaster, dda, ray_hits, framebuffer, textures, game_vars, play_vars>>

Heal ==
    /\ pc = "health"
    /\ \E amount \in HealthAmounts :
           /\ query' = [kind |-> "heal", amount |-> amount]
           /\ \/ /\ ~OverflowsI32(player.health + amount)
                 /\ player' = heal(player, amount)
                 /\ pc' = pc
              \/ /\ OverflowsI32(player.health + amount)
                 /\ \/ player' = heal(player, amount) /\ pc' = "wrapped"
                    \/ player' = player /\ pc' = "panic"
    /\ UNCHANGED <<maze, raycaster, dda, ray_hits, framebuffer, textures, game_vars, play_vars>>

NextHealth == TakeDamage \/ Heal

SpecHealth == InitHealth /\ [][NextHealth]_vars

GameOf ==
    [player |-> player, effects |-> effects, state |-> state, game_timer |-> game_timer,
     idle_timer |-> idle_timer, pills |-> pills, floating_texts |-> floating_texts,
     camera |-> camera]

\* the keys that are down or pressed in a frame, and the horizontal distance
\* of the mouse from last_mouse_pos
NoKeys ==
    [enter |-> FALSE, escape |-> FALSE, w |-> FALSE, s |-> FALSE, a |-> FALSE, d |-> FALSE,
     left |-> FALSE, right |-> FALSE, mouse_dx |-> IntAsF32(0)]

\* self.game_timer < 0.0
TimerExpiredStrictly(timer) == FLess(timer, IntAsF32(0))

\* self.game_timer <= 0.0
TimerExpired(timer) == FLeq(timer, IntAsF32(0))

is_moving(rl) == rl.w \/ rl.s \/ rl.a \/ rl.d

\* lines 132-158 without the reset of line 140
IdleStepNoReset(g, rl, delta_time) ==
    IF is_moving(rl) THEN g
    ELSE LET idle == FAdd(g.idle_timer, delta_time)
         IN  IF FLeq(IntAsF32(5), idle)
             THEN [g EXCEPT !.player = take_damage(g.player, 10),
                            !.effects = trigger_anxiety_effect(g.effects),
                            !.idle_timer = IntAsF32(0)]
             ELSE [g EXCEPT !.idle_timer = idle]

\* lines 132-158: the idle timer and its penalty
IdleStep(g, rl, delta_time) ==
    IF is_moving(rl) THEN [g EXCEPT !.idle_timer = IntAsF32(0)]
    ELSE LET idle == FAdd(g.idle_timer, delta_time)
         IN  IF FLeq(IntAsF32(5), idle)
             THEN [g EXCEPT !.player = take_damage(g.player, 10),
                            !.effects = trigger_anxiety_effect(g.effects),
                            !.idle_timer = IntAsF32(0)]
             ELSE [g EXCEPT !.idle_timer = idle]

\* Camera::update
Camera_update(g, rl, delta_time) ==
    IF g.camera.is_first_frame THEN [g EXCEPT !.camera.is_first_frame = FALSE]
    ELSE IF FLess(F32(1, 10), FAbs(rl.mouse_dx))
         THEN [g EXCEPT !.player =
                   rotate(g.player, FMul(FMul(rl.mouse_dx, g.camera.sensitivity), delta_time))]
         ELSE g

\* lines 163-175: the four moves, in the order W, S, A, D
MoveStep(g, m, rl, delta_time) ==
    LET p1 == IF rl.w THEN move_forward(g.player, m, delta_time) ELSE g.player
        p2 == IF rl.s THEN move_backward(p1, m, delta_time) ELSE p1
        p3 == IF rl.a THEN move_left(p2, m, delta_time) ELSE p2
        p4 == IF rl.d THEN move_right(p3, m, delta_time) ELSE p3
    IN  [g EXCEPT !.player = p4]

\* lines 177-183: the rotation by the arrow keys
RotateStep(g, rl, delta_time) ==
    LET p1 == IF rl.left THEN rotate(g.player, FMul(FNeg(g.player.rot_speed), delta_time))
              ELSE g.player
        p2 == IF rl.right THEN rotate(p1, FMul(p1.rot_speed, delta_time)) ELSE p1
    IN  [g EXCEPT !.player = p2]

\* lines 197-228 without line 198: the effect of pill k, the pill left as it is
CollectPillUnmarked(g, k) ==
    IF ~g.pills[k].collected /\ can_collect(g.pills[k], g.player.pos.x, g.player.pos.y, F32(6, 10))
    THEN IF g.pills[k].pill_type = "Red"
         THEN [g EXCEPT !.player = take_damage(g.player, 15),
                        !.effects = trigger_anxiety_effect(g.effects),
                        !.floating_texts = Append(@, FloatingTextNew("-15 HP", g.pills[k].pos.x, g.pills[k].pos.y))]
         ELSE [g EXCEPT !.player = heal(g.player, 10),
                        !.floating_texts = Append(@, FloatingTextNew("+10 HP", g.pills[k].pos.x, g.pills[k].pos.y))]
    ELSE g

\* lines 197-228: the body of the loop over the pills, for pill k
CollectPill(g, k) ==
    IF ~g.pills[k].collected /\ can_collect(g.pills[k], g.player.pos.x, g.player.pos.y, F32(6, 10))
    THEN IF g.pills[k].pill_type = "Red"
         THEN [g EXCEPT !.pills[k].collected = TRUE,
                        !.player = take_damage(g.player, 15),
                        !.effects = trigger_anxiety_effect(g.effects),
                        !.floating_texts = Append(@, FloatingTextNew("-15 HP", g.pills[k].pos.x, g.pills[k].pos.y))]
         ELSE [g EXCEPT !.pills[k].collected = TRUE,
                        !.player = heal(g.player, 10),
                        !.floating_texts = Append(@, FloatingTextNew("+10 HP", g.pills[k].pos.x, g.pills[k].pos.y))]
    ELSE g

\* lines 196-229: the loop over the pills, from pill k on
RECURSIVE CollectPills(_, _)
CollectPills(g, k) ==
    IF k > Len(g.pills) THEN g ELSE CollectPills(CollectPill(g, k), k + 1)

\* FloatingText::update, the lifetime only
FloatingText_update(text, delta_time) == [text EXCEPT !.lifetime = FSub(@, delta_time)]

\* lines 231-235: retain_mut
TextsStep(g, delta_time) ==
    LET updated == [i \in DOMAIN g.floating_texts |->
                        FloatingText_update(g.floating_texts[i], delta_time)]
        Kept(text) == FLess(IntAsF32(0), text.lifetime)
    IN  [g EXCEPT !.floating_texts = SelectSeq(updated, Kept)]

\* lines 240-248 with a goal threshold of 2.0
LeaveStepFromAfar(g, m, rl) ==
    LET reached == IF is_goal(m, g.player.pos.x, g.player.pos.y, IntAsF32(2))
                   THEN [g EXCEPT !.state = "Victory"] ELSE g
    IN  IF rl.escape THEN [reached EXCEPT !.state = "Menu"] ELSE reached

\* lines 240-248: the goal, then the escape key
LeaveStep(g, m, rl) ==
    LET reached == IF is_goal(m, g.player.pos.x, g.player.pos.y, IntAsF32(1))
                   THEN [g EXCEPT !.state = "Victory"] ELSE g
    IN  IF rl.escape THEN [reached EXCEPT !.state = "Menu"] ELSE reached

\* lines 132-248: a frame of play after the timer check
PlayStep(g, m, rl, delta_time) ==
    LET idled == IdleStep(g, rl, delta_time)
        turned == Camera_update(idled, rl, delta_time)
        moved == RotateStep(MoveStep(turned, m, rl, delta_time), rl, delta_time)
        collected == CollectPills(moved, 1)
        faded == TextsStep(collected, delta_time)
        calmed == [faded EXCEPT !.effects = Effects_update(@, delta_time)]
    IN  LeaveStep(calmed, m, rl)

\* GameState::update
update(g, m, rl, delta_time) ==
    CASE g.state = "Menu" ->
            IF rl.enter
            THEN [g EXCEPT !.state = "Playing", !.camera.is_first_frame = TRUE,
                           !.game_timer = IntAsF32(180)]
            ELSE g
      [] g.state = "Playing" ->
            LET timer == FSub(g.game_timer, delta_time)
            IN  IF TimerExpired(timer)
                THEN [g EXCEPT !.game_timer = IntAsF32(0), !.state = "GameOver"]
                ELSE PlayStep([g EXCEPT !.game_timer = timer], m, rl, delta_time)
      [] g.state = "Victory" ->
            IF rl.enter
            THEN [g EXCEPT !.player = PlayerNew(m.start_pos[1], m.start_pos[2]), !.state = "Menu"]
            ELSE g
      [] g.state = "GameOver" ->
            IF rl.enter
            THEN [g EXCEPT !.player = PlayerNew(m.start_pos[1], m.start_pos[2]),
                           !.game_timer = IntAsF32(180), !.state = "Menu"]
            ELSE g

(***************************************************************************)
(* SpecGame: a game from GameState::new on, one call of update per step    *)
(***************************************************************************)
MaxUpdates == 5

\* a maze with the start, two pills and the exit door
GameMap == << <<"#", "#", "#", "#", "#">>,
              <<"#", "S", "p", "E", "#">>,
              <<"#", "p", ".", ".", "#">>,
              <<"#", "#", "#", "#", "#">> >>

\* Maze::load_from_file("maze.txt", 1.0)
GameMaze == load_from_file(GameMap, IntAsF32(1))

PillTypes == {"Red", "Blue"}

\* the frames of the main loop: keys held or pressed, and the frame time.  A
\* move of 11/60 s is 0.55 tiles, and 289/60 s and 11/60 s of idling are 5.0 s
GameInputs ==
    { [rl |-> NoKeys, delta_time |-> F32(11, 60)],
      [rl |-> NoKeys, delta_time |-> F32(289, 60)],
      [rl |-> [NoKeys EXCEPT !.enter = TRUE], delta_time |-> F32(11, 60)],
      [rl |-> [NoKeys EXCEPT !.escape = TRUE], delta_time |-> F32(11, 60)],
      [rl |-> [NoKeys EXCEPT !.w = TRUE], delta_time |-> F32(11, 60)],
      [rl |-> [NoKeys EXCEPT !.w = TRUE], delta_time |-> IntAsF32(180)],
      [rl |-> [NoKeys EXCEPT !.w = TRUE, !.escape = TRUE], delta_time |-> F32(11, 60)],
      [rl |-> [NoKeys EXCEPT !.d = TRUE], delta_time |-> F32(11, 60)] }

\* no call of update yet
NoUpdate == [kind |-> "none"]

\* GameState::new: the pills at the cells of the maze file, each Red or Blue
\* by a random draw
InitGame ==
    /\ maze = GameMaze
    /\ player = PlayerNew(GameMaze.start_pos[1], GameMaze.start_pos[2])
    /\ raycaster = RayCasterNew(Fov, 1, IntAsF32(MaxDepth))
    /\ dda = NoDDA
    /\ ray_hits = <<>>
    /\ framebuffer = NoFramebuffer
    /\ textures = NoTextures
    /\ assets = NoAssets
    /\ state = "Menu"
    /\ effects = EffectsNew
    /\ frame_log = <<>>
    /\ game_timer = IntAsF32(180)
    /\ idle_timer = IntAsF32(0)
    /\ \E types \in [DOMAIN GameMaze.pill_positions -> PillTypes] :
           pills = [k \in DOMAIN GameMaze.pill_positions |->
                       PillNew(GameMaze.pill_positions[k][1], GameMaze.pill_positions[k][2], types[k])]
    /\ floating_texts = <<>>
    /\ camera = CameraNew
    /\ frames = 0
    /\ query = NoUpdate
    /\ pc = "game"

\* one frame of the main loop: game.update(&rl, delta_time); query keeps the
\* keys, the frame time and the game before the call
Update ==
    /\ pc = "game"
    /\ frames < MaxUpdates
    /\ \E i \in GameInputs :
           \E after \in {update(GameOf, maze, i.rl, i.delta_time)} :
               /\ player' = after.player
               /\ effects' = after.effects
               /\ state' = after.state
               /\ game_timer' = after.game_timer
               /\ idle_timer' = after.idle_timer
               /\ pills' = after.pills
               /\ floating_texts' = after.floating_texts
               /\ camera' = after.camera
               /\ query' = [kind |-> "update", rl |-> i.rl, delta_time |-> i.delta_time,
                            before |-> GameOf]
    /\ frames' = frames + 1
    /\ UNCHANGED <<maze, raycaster, dda, ray_hits, framebuffer, textures, pc, assets, frame_log>>

NextGame == Update

SpecGame == InitGame /\ [][NextGame]_vars

\* the last step was a call of update
Updated == query.kind = "update"

\* the call was made while Playing and the timer did not run out in it
Played ==
    /\ Updated
    /\ query.before.state = "Playing"
    /\ FLess(IntAsF32(0), FSub(query.before.game_timer, query.delta_time))

\* the pills that the last call of update collected
NewlyCollected ==
    IF Updated
    THEN {k \in DOMAIN pills : pills[k].collected /\ ~query.before.pills[k].collected}
    ELSE {}

\* the idle penalty fell in the last call of update
IdlePenalty ==
    /\ Played
    /\ ~is_moving(query.rl)
    /\ FLeq(IntAsF32(5), FAdd(query.before.idle_timer, query.delta_time))

\* C22: an update that collects a Blue pill, and nothing else that changes the
\* health, heals the player by 10 HP up to max_health and takes 20 seconds
\* off the game timer on top of the frame time
C22_BluePillHealsAndCostsTime ==
    \A k \in NewlyCollected :
        (pills[k].pill_type = "Blue" /\ NewlyCollected = {k} /\ ~IdlePenalty) =>
            /\ player.health = Min(query.before.player.health + 10, player.max_health)
            /\ game_timer = FSub(FSub(query.before.game_timer, query.delta_time), IntAsF32(20))

\* the timer ran out in the last call of update
Expired ==
    /\ Updated
    /\ query.before.state = "Playing"
    /\ FLeq(FSub(query.before.game_timer, query.delta_time), IntAsF32(0))

\* C23: the state changes only from Menu to Playing on ENTER, from Playing to
\* GameOver when the timer reaches 0, from Playing to Victory within 1.0 of
\* the goal, from Playing to Menu on ESCAPE, and from Victory or GameOver to
\* Menu on ENTER; without ENTER the states Menu, Victory and GameOver stay
C23_OnlyListedTransitions ==
    Updated =>
        LET from == query.before.state
        IN  /\ state # from =>
                \/ from = "Menu" /\ state = "Playing" /\ query.rl.enter
                \/ from = "Playing" /\ state = "GameOver" /\ Expired
                \/ /\ from = "Playing" /\ state = "Victory"
                   /\ is_goal(maze, player.pos.x, player.pos.y, IntAsF32(1))
                \/ from = "Playing" /\ state = "Menu" /\ query.rl.escape
                \/ from = "Victory" /\ state = "Menu" /\ query.rl.enter
                \/ from = "GameOver" /\ state = "Menu" /\ query.rl.enter
            /\ (from \in {"Menu", "Victory", "GameOver"} /\ ~query.rl.enter) => state = from

\* a game that was started, won at the goal and left for the menu by ENTER
C23_Witness ==
    /\ Updated
    /\ query.before.state = "Victory"
    /\ query.rl.enter
    /\ state = "Menu"
    /\ is_goal(maze, query.before.player.pos.x, query.before.player.pos.y, IntAsF32(1))

\* the health after the effects of the pills k.. that the last update collected
RECURSIVE HealthAfterPills(_, _)
HealthAfterPills(health, k) ==
    IF k > Len(pills) THEN health
    ELSE IF k \notin NewlyCollected THEN HealthAfterPills(health, k + 1)
    ELSE IF pills[k].pill_type = "Red" THEN HealthAfterPills(Max(health - 15, 0), k + 1)
    ELSE HealthAfterPills(Min(health + 10, player.max_health), k + 1)

\* the floating text of pill k, one frame old
FreshText(k) ==
    [text |-> IF pills[k].pill_type = "Red" THEN "-15 HP" ELSE "+10 HP",
     pos |-> pills[k].pos, lifetime |-> FSub(F32(3, 2), query.delta_time)]

TextsOf(texts) == {texts[i] : i \in DOMAIN texts}

\* C26: a pill's collected flag only goes from false to true, also across
\* returns to the menu and restarts; the health changes of an update are the
\* idle penalty and the effects of the pills that become collected in it, and
\* the floating texts made in an update are those of these pills
C26_PillsTakeEffectOnce ==
    Updated =>
        /\ \A k \in DOMAIN pills :
               /\ query.before.pills[k].collected => pills[k].collected
               /\ pills[k].pos = query.before.pills[k].pos
               /\ pills[k].pill_type = query.before.pills[k].pill_type
        /\ ~Played => NewlyCollected = {} /\ floating_texts = query.before.floating_texts
        /\ Played =>
               /\ player.health =
                      HealthAfterPills(IF IdlePenalty THEN Max(query.before.player.health - 10, 0)
                                       ELSE query.before.player.health, 1)
               /\ \A k \in NewlyCollected :
                      /\ can_collect(query.before.pills[k], player.pos.x, player.pos.y, F32(6, 10))
                      /\ FLess(query.delta_time, F32(3, 2)) => FreshText(k) \in TextsOf(floating_texts)
               /\ \A text \in TextsOf(floating_texts) :
                      \/ \E k \in NewlyCollected : text = FreshText(k)
                      \/ \E old \in TextsOf(query.before.floating_texts) :
                             text = FloatingText_update(old, query.delta_time)

\* the first frame of play after a return to the menu, the player within reach
\* of a pill collected in the game before: nothing happens to the health
C26_Witness ==
    /\ Played
    /\ query.before.game_timer = IntAsF32(180)
    /\ \E k \in DOMAIN pills :
           /\ query.before.pills[k].collected
           /\ Within(pills[k].pos.x, pills[k].pos.y, player.pos.x, player.pos.y, F32(6, 10))
    /\ player.health = query.before.player.health
    /\ player.health < player.max_health

\* what the idle logic leaves behind after a call of update
IdleOutcome ==
    /\ is_moving(query.rl) => idle_timer = IntAsF32(0)
    /\ ~is_moving(query.rl) =>
           LET idle == FAdd(query.before.idle_timer, query.delta_time)
           IN  IF FLeq(IntAsF32(5), idle)
               THEN /\ idle_timer = IntAsF32(0)
                    /\ player.health = HealthAfterPills(Max(query.before.player.health - 10, 0), 1)
                    /\ effects = Effects_update(trigger_anxiety_effect(query.before.effects),
                                                query.delta_time)
               ELSE /\ idle_timer = idle
                    /\ player.health = HealthAfterPills(query.before.player.health, 1)

IdleTimerInRange == FLeq(IntAsF32(0), idle_timer) /\ FLess(idle_timer, IntAsF32(5))

\* C27 as stated: in every update made while Playing, W, A, S or D held resets
\* idle_timer to 0; without them the frame time is added, and at 5.0 the
\* player takes one 10 HP hit, the anxiety effect is triggered and idle_timer
\* is 0 again; idle_timer lies in [0, 5) after every update
C27_IdlePenaltyWhilePlaying ==
    /\ IdleTimerInRange
    /\ (Updated /\ query.before.state = "Playing") => IdleOutcome

\* C27: the same in every update made while Playing in which the game timer
\* does not run out; the update in which it runs out leaves idle_timer as it is
C27_IdlePenaltyUnlessExpired ==
    /\ IdleTimerInRange
    /\ Played => IdleOutcome
    /\ Expired => idle_timer = query.before.idle_timer /\ player = query.before.player

\* idle time gathered over two frames reaches 5.0: one hit of 10 HP
C27_Witness ==
    /\ IdlePenalty
    /\ FLess(IntAsF32(0), query.before.idle_timer)
    /\ FLess(query.before.idle_timer, IntAsF32(5))
    /\ idle_timer = IntAsF32(0)
    /\ player.health = query.before.player.health - 10
    /\ effects.anxiety_timer = FSub(IntAsF32(2), query.delta_time)

(***************************************************************************)
(* SpecCountdown: games with positive frame times and no ESCAPE, without a *)
(* bound on the number of frames                                           *)
(***************************************************************************)
\* frames of 45 s and 60 s: the timer passes 0 or lands on it
CountdownInputs ==
    { [rl |-> NoKeys, delta_time |-> IntAsF32(45)],
      [rl |-> NoKeys, delta_time |-> IntAsF32(60)],
      [rl |-> [NoKeys EXCEPT !.enter = TRUE], delta_time |-> IntAsF32(60)],
      [rl |-> [NoKeys EXCEPT !.w = TRUE], delta_time |-> IntAsF32(60)],
      [rl |-> [NoKeys EXCEPT !.left = TRUE], delta_time |-> IntAsF32(60)],
      [rl |-> [NoKeys EXCEPT !.right = TRUE, !.mouse_dx = IntAsF32(827)], delta_time |-> IntAsF32(45)] }

UpdateCountdown ==
    /\ pc = "game"
    /\ \E i \in CountdownInputs :
           \E after \in {update(GameOf, maze, i.rl, i.delta_time)} :
               /\ player' = after.player
               /\ effects' = after.effects
               /\ state' = after.state
               /\ game_timer' = after.game_timer
               /\ idle_timer' = after.idle_timer
               /\ pills' = after.pills
               /\ floating_texts' = after.floating_texts
               /\ camera' = after.camera
               /\ query' = [kind |-> "update", rl |-> i.rl, delta_time |-> i.delta_time,
                            before |-> GameOf]
    /\ UNCHANGED <<maze, raycaster, dda, ray_hits, framebuffer, textures, pc, assets, frame_log, frames>>

NextCountdown == UpdateCountdown

\* the main loop calls update in every frame, and in every state some frame
\* changes the state: weak fairness of the next-state action, written as the
\* steps it requires
SpecCountdown == InitGame /\ [][NextCountdown]_vars /\ []<><<NextCountdown>>_vars

\* the update in which the timer runs out sets it to 0, ends the game and
\* touches nothing else
ExpiryOnly ==
    Expired =>
        /\ game_timer = IntAsF32(0)
        /\ state = "GameOver"
        /\ player = query.before.player
        /\ pills = query.before.pills
        /\ effects = query.before.effects
        /\ floating_texts = query.before.floating_texts
        /\ idle_timer = query.before.idle_timer
        /\ camera = query.before.camera

\* C24: in the Playing update in which game_timer drops to 0 or below it is
\* set to 0, the state becomes GameOver and nothing else happens; game_timer
\* is never negative after an update, and with positive frame times and no
\* ESCAPE or goal a game being played always reaches GameOver
C24_TimerExpiryFirst ==
    /\ []ExpiryOnly
    /\ [](Updated => FLeq(IntAsF32(0), game_timer))
    /\ (state = "Playing") ~> (state = "GameOver")

\* the timer passes 0 in a frame with W held: no move, the game is over
C24_Witness ==
    /\ Expired
    /\ query.rl.w
    /\ FLess(FSub(query.before.game_timer, query.delta_time), IntAsF32(0))
    /\ FLess(IntAsF32(0), query.before.game_timer)
    /\ state = "GameOver"
    /\ game_timer = IntAsF32(0)

(***************************************************************************)
(* SpecMove: calls of the four move functions of Player                    *)
(***************************************************************************)
MaxMoves == 2

\* a maze with a wall cell in the middle, loaded with the game's tile size
MoveMap == << <<"#", "#", "#", "#", "#">>,
              <<"#", ".", ".", ".", "#">>,
              <<"#", ".", "#", ".", "#">>,
              <<"#", ".", ".", ".", "#">>,
              <<"#", "#", "#", "#", "#">> >>

MoveMaze == load_from_file(MoveMap, IntAsF32(1))

\* where in its cell the player starts: at the centre, or close to an edge
StartOffsets == {F32(1, 2), F32(1, 20)}

\* the player faces along an axis, along a diagonal, or in between
MoveAngles == {0, 3, 8, 17}

\* a move of 0.55 tiles, and one of 2 tiles
MoveFrameTimes == {F32(11, 60), F32(2, 3)}

InitMove ==
    /\ maze = MoveMaze
    /\ \E cx \in 0..(MoveMaze.width - 1), cy \in 0..(MoveMaze.height - 1),
          ox \in StartOffsets, oy \in StartOffsets, a \in MoveAngles :
           /\ ~is_wall(MoveMaze, cx, cy)
           /\ player = [PlayerNew(FAdd(IntAsF32(cx), ox), FAdd(IntAsF32(cy), oy)) EXCEPT !.angle = a]
    /\ query = [kind |-> "none"]
    /\ raycaster = RayCasterNew(Fov, 1, IntAsF32(MaxDepth))
    /\ dda = NoDDA
    /\ ray_hits = <<>>
    /\ framebuffer = NoFramebuffer
    /\ textures = NoTextures
    /\ NoGame
    /\ pc = "move"

\* the state left alone by a move, and the count of the moves
MoveFrame(kind, delta_time) ==
    /\ pc = "move"
    /\ frames < MaxMoves
    /\ frames' = frames + 1
    /\ query' = [kind |-> kind, delta_time |-> delta_time, before |-> player]
    /\ UNCHANGED <<maze, raycaster, dda, ray_hits, framebuffer, textures, pc, game_vars>>
    /\ UNCHANGED <<game_timer, idle_timer, pills, floating_texts, camera>>

MoveForward ==
    \E delta_time \in MoveFrameTimes :
        /\ player' = move_forward(player, maze, delta_time)
        /\ MoveFrame("move_forward", delta_time)

MoveBackward ==
    \E delta_time \in MoveFrameTimes :
        /\ player' = move_backward(player, maze, delta_time)
        /\ MoveFrame("move_backward", delta_time)

MoveLeft ==
    \E delta_time \in MoveFrameTimes :
        /\ player' = move_left(player, maze, delta_time)
        /\ MoveFrame("move_left", delta_time)

MoveRight ==
    \E delta_time \in MoveFrameTimes :
        /\ player' = move_right(player, maze, delta_time)
        /\ MoveFrame("move_right", delta_time)

NextMove == MoveForward \/ MoveBackward \/ MoveLeft \/ MoveRight

SpecMove == InitMove /\ [][NextMove]_vars

\* the heading of the last move and the position it aimed at
LastHeading ==
    query.before.angle +
        (CASE query.kind = "move_forward" -> 0
           [] query.kind = "move_backward" -> HalfTurn
           [] query.kind = "move_left" -> -(HalfTurn \div 2)
           [] query.kind = "move_right" -> HalfTurn \div 2)

LastTarget ==
    [x |-> FAdd(query.before.pos.x, FMul(FMul(Cos(LastHeading), query.before.move_speed), query.delta_time)),
     y |-> FAdd(query.before.pos.y, FMul(FMul(Sin(LastHeading), query.before.move_speed), query.delta_time))]

\* the cell of a position
CellOf(m, pos) == <<AsUsize(FDiv(pos.x, m.tile_size)), AsUsize(FDiv(pos.y, m.tile_size))>>

InsideWall(m, pos) == is_wall(m, CellOf(m, pos)[1], CellOf(m, pos)[2])

\* some of the eight points around a position lies in a wall cell
TouchesWall(m, pos, radius) ==
    \E k \in 0..7 :
        InsideWall(m, [x |-> FAdd(pos.x, FMul(Cos(3 * k), radius)),
                       y |-> FAdd(pos.y, FMul(Sin(3 * k), radius))])

\* C29: from a position in a cell that is no wall, the moves never put the
\* player inside a wall cell, and a move whose target fails the check of the
\* eight points leaves the position as it was
C29_NeverInsideWall ==
    pc = "move" =>
        /\ ~InsideWall(maze, player.pos)
        /\ query.kind # "none" =>
               IF TouchesWall(maze, LastTarget, query.before.collision_radius)
               THEN player.pos = query.before.pos
               ELSE player.pos = LastTarget

\* a move of 2 tiles aimed at the inside of a wall cell is refused
C29_Witness ==
    /\ pc = "move"
    /\ query.kind = "move_backward"
    /\ InsideWall(maze, LastTarget)
    /\ player.pos = query.before.pos
    /\ LastTarget # query.before.pos

====
